---------------------------- MODULE Spec2Model ----------------------------
(* A model of src/ytmovie.py: the text layout of the trick-question video  *)
(* generator.  Strings are sequences of one-character strings.  The model   *)
(* has one group of variables per function of the source and one           *)
(* specification per function: SpecWrap steps through wrap_text,           *)
(* SpecClassify colours one code line, SpecLayout steps through the layout *)
(* pass of create_text_image, SpecAnswer steps through the answer lookup   *)
(* of create_video, SpecSize calls get_text_size, SpecMain steps through   *)
(* main and the functions it calls.  SpecLayoutTwice calls                 *)
(* create_text_image a second time, SpecWrapTabs gives wrap_text texts     *)
(* with tabs, SpecRun is wrap_text and create_text_image under fairness.   *)
EXTENDS Integers, Sequences, FiniteSets, TLC

VARIABLES
    \* wrap_text (src/ytmovie.py:317-373)
    text, font, max_width, paragraphs, pidx, words, widx, word,
    current_line, chars_per_line, lines, wpc,
    \* history of wrap_text: lines and current_line when the word loop body
    \* was entered for `word`, and the number of lines when the paragraph loop
    \* body was entered
    pre_lines, pre_line, para_start

wrapVars == <<text, font, max_width, paragraphs, pidx, words, widx, word,
              current_line, chars_per_line, lines, wpc, pre_lines, pre_line,
              para_start>>

VARIABLES
    \* one pass of the code line loop of create_text_image (lines 532-549)
    line, color, cpc

classifyVars == <<line, color, cpc>>

VARIABLES
    \* create_text_image (lines 405-626): the record, the four fonts, the
    \* cursor, the wrapped question, the option loop and the returned value
    question_data, fonts, current_y, question_lines, qidx, options,
    option_i, box_y_start, box_y_end, image_path, lpc,
    \* what has been drawn so far, in drawing order: one element for the
    \* prompt, the question's lines, the code box and each option box
    plan,
    \* the exception that ended create_text_image, "" while there is none
    error,
    \* history of create_text_image: what an earlier call with the same record
    \* and the same fonts drew and returned, <<>> while there is none
    first_call

layoutVars == <<question_data, fonts, current_y, question_lines, qidx, options,
                option_i, box_y_start, box_y_end, image_path, lpc, plan, error,
                first_call>>

VARIABLES
    \* the answer lookup of create_video (lines 679-695): the record, the
    \* letter, the options and the position in them, the text found, the text
    \* shown
    video_question_data, correct_answer_letter, video_options, opt_index,
    correct_option_full_text, answer_display_text, vpc

answerVars == <<video_question_data, correct_answer_letter, video_options,
                opt_index, correct_option_full_text, answer_display_text, vpc>>

VARIABLES
    \* main (lines 803-865): the position, the global DETECTED_FONT_PATH, the
    \* locals question_data and image_path
    mpc, DETECTED_FONT_PATH, main_question_data, main_image_path,
    \* history of main: the stages that failed or raised so far
    absorbed

mainVars == <<mpc, DETECTED_FONT_PATH, main_question_data, main_image_path,
              absorbed>>

VARIABLES
    \* calls of get_text_size (lines 375-402): the font, the text, the pair
    \* returned, the pair returned by the call before, the position
    size_font, size_text, size_result, size_before, spc

sizeVars == <<size_font, size_text, size_result, size_before, spc>>

vars == <<wrapVars, classifyVars, layoutVars, answerVars, mainVars, sizeVars>>

notWrapVars == <<classifyVars, layoutVars, answerVars, mainVars, sizeVars>>
notClassifyVars == <<wrapVars, layoutVars, answerVars, mainVars, sizeVars>>
notLayoutVars == <<wrapVars, classifyVars, answerVars, mainVars, sizeVars>>
notAnswerVars == <<wrapVars, classifyVars, layoutVars, mainVars, sizeVars>>
notMainVars == <<wrapVars, classifyVars, layoutVars, answerVars, sizeVars>>
notSizeVars == <<wrapVars, classifyVars, layoutVars, answerVars, mainVars>>

-----------------------------------------------------------------------------
(* Bounds *)

\* longest input text of SpecWrap, in characters
MaxLen == 5

\* longest code line of SpecClassify drawn from its alphabet, in characters
MaxLineLen == 4

\* lines of the long code text of SpecLayout
CodeLines == 30

\* lines of the long option text of SpecLayout
OptionLines == 8

\* most options of a record of SpecAnswer
MaxOptions == 3

-----------------------------------------------------------------------------
(* Strings *)

Max(a, b) == IF a >= b THEN a ELSE b

\* the characters str.strip() removes that occur in the model's alphabets
Whitespace == {" ", "\t", "\n"}

RECURSIVE LStrip(_)
LStrip(s) ==
    IF s # <<>> /\ Head(s) \in Whitespace THEN LStrip(Tail(s)) ELSE s

RECURSIVE RStrip(_)
RStrip(s) ==
    IF s # <<>> /\ s[Len(s)] \in Whitespace
    THEN RStrip(SubSeq(s, 1, Len(s) - 1)) ELSE s

\* str.strip()
Strip(s) == RStrip(LStrip(s))

\* str.split(sep) with a one-character separator: never an empty list
RECURSIVE Split(_, _)
Split(s, sep) ==
    IF \A i \in 1..Len(s) : s[i] # sep
    THEN <<s>>
    ELSE LET k == CHOOSE i \in 1..Len(s) :
                      s[i] = sep /\ \A j \in 1..(i - 1) : s[j] # sep
         IN  <<SubSeq(s, 1, k - 1)>> \o Split(SubSeq(s, k + 1, Len(s)), sep)

\* str.rfind(' '): the 0-based index of the last space, -1 if there is none
RFindSpace(s) ==
    IF \E i \in 1..Len(s) : s[i] = " "
    THEN (CHOOSE i \in 1..Len(s) :
              s[i] = " " /\ \A j \in (i + 1)..Len(s) : s[j] # " ") - 1
    ELSE -1

\* every string over the alphabet of at most n characters
RECURSIVE StringsUpTo(_, _)
StringsUpTo(alphabet, n) ==
    IF n = 0 THEN {<<>>}
    ELSE LET shorter == StringsUpTo(alphabet, n - 1)
         IN  shorter \cup {Append(s, c) : s \in shorter, c \in alphabet}

\* int(a / b) for b > 0: Python truncates towards zero
TruncDiv(a, b) == IF a >= 0 THEN a \div b ELSE -((-a) \div b)

-----------------------------------------------------------------------------
(* Fonts and get_text_size *)

\* A font is what get_text_size sees of it.  kind "bbox": the object has
\* getbbox, each character advances by its width (cw, `b' by wide, a space by
\* sp) and a text's height is h, tall if it holds a `b', 0 if it is empty.
\* kind "none": the object has neither getbbox nor getsize.
NoMethodFont == [kind |-> "none", cw |-> 0, wide |-> 0, sp |-> 0, h |-> 0, tall |-> 0]
MonoFont == [kind |-> "bbox", cw |-> 10, wide |-> 10, sp |-> 10, h |-> 50, tall |-> 50]
PropFont == [kind |-> "bbox", cw |-> 10, wide |-> 20, sp |-> 5, h |-> 50, tall |-> 60]

CharWidth(f, c) ==
    IF c = " " THEN f.sp ELSE IF c = "b" THEN f.wide ELSE f.cw

RECURSIVE BBoxWidth(_, _)
BBoxWidth(f, s) ==
    IF s = <<>> THEN 0 ELSE CharWidth(f, Head(s)) + BBoxWidth(f, Tail(s))

BBoxHeight(f, s) ==
    IF s = <<>> THEN 0
    ELSE IF \E i \in 1..Len(s) : s[i] = "b" THEN f.tall ELSE f.h

\* the estimate of line 392
fallback_height == 20

\* hasattr(font, name): a font may hold more than the fields above. `size'
\* is the attribute of that name; `raises' says that its measuring method
\* raises
HasAttr(f, name) == name \in DOMAIN f

\* the measuring call of line 380 or 387 raises
MeasureRaises(f) == HasAttr(f, "raises") /\ f.raises

\* lines 393 and 402 with the whole height as the width of a character
EstimateWide(n, line_height) == <<n * line_height, line_height>>

\* lines 393 and 402: the estimate for a text of n characters
Estimate(n, line_height) == <<n * (line_height \div 2), line_height>>

\* get_text_size(font, text): <<width, height>>
GetTextSize(f, s) ==
    IF f.kind \in {"bbox", "getsize"}
    THEN IF MeasureRaises(f)
         THEN Estimate(Len(s), IF HasAttr(f, "size") THEN f.size
                               ELSE fallback_height)
         ELSE <<BBoxWidth(f, s), BBoxHeight(f, s)>>
    ELSE Estimate(Len(s), fallback_height)

\* one call (lines 375-402)
Measure ==
    /\ spc = "call"
    /\ size_result' = GetTextSize(size_font, size_text)
    /\ spc' = "returned"
    /\ UNCHANGED <<size_font, size_text, size_before>>
    /\ UNCHANGED notSizeVars

\* a second call with the same font and text
MeasureAgain ==
    /\ spc = "returned"
    /\ size_before' = size_result
    /\ size_result' = GetTextSize(size_font, size_text)
    /\ spc' = "again"
    /\ UNCHANGED <<size_font, size_text>>
    /\ UNCHANGED notSizeVars

\* a call with the text one character longer
MeasureLonger(c) ==
    /\ spc \in {"returned", "longer"}
    /\ Len(size_text) < MaxLen
    /\ size_text' = Append(size_text, c)
    /\ size_before' = size_result
    /\ size_result' = GetTextSize(size_font, size_text')
    /\ spc' = "longer"
    /\ UNCHANGED size_font
    /\ UNCHANGED notSizeVars

\* get_text_size is not called
SizeIdle ==
    /\ size_font = NoMethodFont
    /\ size_text = <<>>
    /\ size_result = <<0, 0>>
    /\ size_before = <<0, 0>>
    /\ spc = "idle"

-----------------------------------------------------------------------------
(* wrap_text *)

\* chars_per_line rounded up instead of down
chars_per_line_ceil(word_width, n, mw) ==
    IF n > 0
    THEN IF word_width > 0
         THEN Max(1, TruncDiv(mw * n + word_width - 1, word_width)) ELSE 1
    ELSE Max(1, TruncDiv(mw, 10))

\* lines 357-358: avg_char_width = word_width / len(current_line),
\* chars_per_line = max(1, int(max_width / avg_char_width)); the quotient
\* max_width / (word_width / n) is taken exactly, as max_width * n / word_width
chars_per_line_of(word_width, n, mw) ==
    IF n > 0
    THEN IF word_width > 0 THEN Max(1, TruncDiv(mw * n, word_width)) ELSE 1
    ELSE Max(1, TruncDiv(mw, 10))

\* the word loop's body with line_width < max_width as the test for joining
WordBodyStrict(cur, ls, w, f, mw) ==
    IF w = <<>>
    THEN [cur |-> IF cur # <<>> THEN Append(cur, " ") ELSE cur,
          lines |-> ls, fb |-> FALSE, cpl |-> 0]
    ELSE LET test_line == Strip(cur \o <<" ">> \o w)
             line_width == GetTextSize(f, test_line)[1]
             flushed == IF cur # <<>> THEN Append(ls, cur) ELSE ls
             word_width == GetTextSize(f, w)[1]
         IN  IF line_width < mw
             THEN [cur |-> test_line, lines |-> ls, fb |-> FALSE, cpl |-> 0]
             ELSE IF word_width > mw
             THEN [cur |-> w, lines |-> flushed, fb |-> TRUE,
                   cpl |-> chars_per_line_of(word_width, Len(w), mw)]
             ELSE [cur |-> w, lines |-> flushed, fb |-> FALSE, cpl |-> 0]

\* lines 332-358: the body of the word loop up to the fallback loop.  fb tells
\* whether the fallback loop is entered, cpl is chars_per_line then.
WordBody(cur, ls, w, f, mw) ==
    IF w = <<>>
    THEN [cur |-> IF cur # <<>> THEN Append(cur, " ") ELSE cur,
          lines |-> ls, fb |-> FALSE, cpl |-> 0]
    ELSE LET test_line == Strip(cur \o <<" ">> \o w)
             line_width == GetTextSize(f, test_line)[1]
             flushed == IF cur # <<>> THEN Append(ls, cur) ELSE ls
             word_width == GetTextSize(f, w)[1]
         IN  IF line_width <= mw
             THEN [cur |-> test_line, lines |-> ls, fb |-> FALSE, cpl |-> 0]
             ELSE IF word_width > mw
             THEN [cur |-> w, lines |-> flushed, fb |-> TRUE,
                   cpl |-> chars_per_line_of(word_width, Len(w), mw)]
             ELSE [cur |-> w, lines |-> flushed, fb |-> FALSE, cpl |-> 0]

\* lines 366-367 with the rest of the token taken one character late
CutOnceSkip(cur, ls, cpl) ==
    [cur |-> SubSeq(cur, cpl + 2, Len(cur)),
     lines |-> Append(ls, SubSeq(cur, 1, cpl))]

\* lines 360-367: one pass of the fallback loop's body
CutOnce(cur, ls, cpl) ==
    LET break_point == RFindSpace(SubSeq(cur, 1, cpl))
    IN  IF break_point # -1 /\ break_point > 0
        THEN [cur |-> Strip(SubSeq(cur, break_point + 1, Len(cur))),
              lines |-> Append(ls, SubSeq(cur, 1, break_point))]
        ELSE [cur |-> SubSeq(cur, cpl + 1, Len(cur)),
              lines |-> Append(ls, SubSeq(cur, 1, cpl))]

\* lines 370-371: the flush at the end of a paragraph
FlushLine(cur, ls) == IF cur # <<>> THEN Append(ls, cur) ELSE ls

\* line 359: the fallback loop
RECURSIVE FallbackLoop(_, _, _)
FallbackLoop(cur, ls, cpl) ==
    IF Len(cur) > cpl
    THEN LET r == CutOnce(cur, ls, cpl) IN FallbackLoop(r.cur, r.lines, cpl)
    ELSE [cur |-> cur, lines |-> ls]

\* line 330: the word loop from word i on; its value is the paragraph's lines
RECURSIVE WordLoop(_, _, _, _, _, _)
WordLoop(ws, i, cur, ls, f, mw) ==
    IF i > Len(ws)
    THEN FlushLine(cur, ls)
    ELSE LET b == WordBody(cur, ls, ws[i], f, mw)
             r == IF b.fb THEN FallbackLoop(b.cur, b.lines, b.cpl)
                  ELSE [cur |-> b.cur, lines |-> b.lines]
         IN  WordLoop(ws, i + 1, r.cur, r.lines, f, mw)

\* lines 324-327: the words of a paragraph, and the lines so far with the
\* empty line of a paragraph that has no words
ParagraphWords(paragraph) == Split(paragraph, " ")

\* line 323: the paragraph loop from paragraph i on
RECURSIVE ParagraphLoop(_, _, _, _, _)
ParagraphLoop(ps, i, ls, f, mw) ==
    IF i > Len(ps)
    THEN ls
    ELSE LET ws == ParagraphWords(ps[i])
         IN  IF ws = <<>>
             THEN ParagraphLoop(ps, i + 1, Append(ls, <<>>), f, mw)
             ELSE ParagraphLoop(ps, i + 1, WordLoop(ws, 1, <<>>, ls, f, mw), f, mw)

\* wrap_text(text, font, max_width), as the callers see it
WrapText(t, f, mw) == ParagraphLoop(Split(t, "\n"), 1, <<>>, f, mw)

(* wrap_text step by step *)

\* lines 319-321
WrapBegin ==
    /\ UNCHANGED notWrapVars
    /\ wpc = "start"
    /\ lines' = <<>>
    /\ paragraphs' = Split(text, "\n")
    /\ pidx' = 1
    /\ wpc' = "paragraph"
    /\ UNCHANGED <<text, font, max_width, words, widx, word, current_line,
                   chars_per_line, pre_lines, pre_line, para_start>>

\* lines 323-329: the next paragraph is taken
ParagraphBegin ==
    /\ UNCHANGED notWrapVars
    /\ wpc = "paragraph"
    /\ pidx <= Len(paragraphs)
    /\ words' = ParagraphWords(paragraphs[pidx])
    /\ IF words' = <<>>
       THEN /\ lines' = Append(lines, <<>>)
            /\ pidx' = pidx + 1
            /\ wpc' = "paragraph"
            /\ UNCHANGED <<current_line, widx>>
       ELSE /\ current_line' = <<>>
            /\ widx' = 1
            /\ wpc' = "word"
            /\ UNCHANGED <<lines, pidx>>
    /\ para_start' = Len(lines)
    /\ UNCHANGED <<text, font, max_width, paragraphs, word, chars_per_line,
                   pre_lines, pre_line>>

\* lines 330-358: one word is taken
WordStep ==
    /\ UNCHANGED notWrapVars
    /\ wpc = "word"
    /\ widx <= Len(words)
    /\ LET b == WordBody(current_line, lines, words[widx], font, max_width)
       IN  /\ word' = words[widx]
           /\ pre_lines' = lines
           /\ pre_line' = current_line
           /\ current_line' = b.cur
           /\ lines' = b.lines
           /\ IF b.fb
              THEN /\ chars_per_line' = b.cpl
                   /\ wpc' = "fallback"
                   /\ UNCHANGED widx
              ELSE /\ widx' = widx + 1
                   /\ UNCHANGED <<chars_per_line, wpc>>
    /\ UNCHANGED <<text, font, max_width, paragraphs, pidx, words, para_start>>

\* lines 359-367 with a cut that removes nothing: the loop goes round without
\* a change
FallbackCutNothing ==
    /\ wpc = "fallback"
    /\ Len(current_line) > chars_per_line
    /\ UNCHANGED vars

\* lines 359-367: one cut of the token
FallbackCut ==
    /\ UNCHANGED notWrapVars
    /\ wpc = "fallback"
    /\ Len(current_line) > chars_per_line
    /\ LET r == CutOnce(current_line, lines, chars_per_line)
       IN  /\ current_line' = r.cur
           /\ lines' = r.lines
    /\ UNCHANGED <<text, font, max_width, paragraphs, pidx, words, widx, word,
                   chars_per_line, wpc, pre_lines, pre_line, para_start>>

\* line 359: the loop condition fails, the word loop goes on
FallbackExit ==
    /\ UNCHANGED notWrapVars
    /\ wpc = "fallback"
    /\ Len(current_line) <= chars_per_line
    /\ widx' = widx + 1
    /\ wpc' = "word"
    /\ UNCHANGED <<text, font, max_width, paragraphs, pidx, words, word,
                   current_line, chars_per_line, lines, pre_lines, pre_line, para_start>>

\* lines 369-371: the paragraph's words are used up
ParagraphEnd ==
    /\ UNCHANGED notWrapVars
    /\ wpc = "word"
    /\ widx > Len(words)
    /\ lines' = FlushLine(current_line, lines)
    /\ pidx' = pidx + 1
    /\ wpc' = "paragraph"
    /\ UNCHANGED <<text, font, max_width, paragraphs, words, widx, word,
                   current_line, chars_per_line, pre_lines, pre_line, para_start>>

\* line 373
WrapReturn ==
    /\ UNCHANGED notWrapVars
    /\ wpc = "paragraph"
    /\ pidx > Len(paragraphs)
    /\ wpc' = "done"
    /\ UNCHANGED <<text, font, max_width, paragraphs, pidx, words, widx, word,
                   current_line, chars_per_line, lines, pre_lines, pre_line, para_start>>

-----------------------------------------------------------------------------
(* The colour of a code line: create_text_image, lines 532-549 *)

\* the keywords of the pattern of line 539
Keywords ==
    { <<"d","e","f">>, <<"c","l","a","s","s">>, <<"i","f">>,
      <<"e","l","s","e">>, <<"e","l","i","f">>, <<"f","o","r">>,
      <<"w","h","i","l","e">>, <<"t","r","y">>,
      <<"e","x","c","e","p","t">>, <<"f","i","n","a","l","l","y">>,
      <<"r","e","t","u","r","n">>, <<"i","m","p","o","r","t">>,
      <<"f","r","o","m">>, <<"w","i","t","h">>, <<"y","i","e","l","d">>,
      <<"p","a","s","s">>, <<"b","r","e","a","k">>,
      <<"c","o","n","t","i","n","u","e">>, <<"i","n">>, <<"i","s">>,
      <<"n","o","t">>, <<"a","n","d">>, <<"o","r">>,
      <<"l","a","m","b","d","a">>, <<"a","s","y","n","c">>,
      <<"a","w","a","i","t">>, <<"g","l","o","b","a","l">>,
      <<"n","o","n","l","o","c","a","l">>, <<"a","s","s","e","r","t">>,
      <<"d","e","l">> }

\* the characters \w matches, among those of the model's texts
WordChars ==
    { "a","b","c","d","e","f","g","h","i","j","k","l","m","n","o","p","q","r",
      "s","t","u","v","w","x","y","z","A","B","C","D","_",
      "0","1","2","3","4","5","6","7","8","9" }

\* the alternatives of the pattern of line 542
QuotePatterns ==
    { <<"'">>, <<"\"">>, <<"f","'">>, <<"f","\"">>, <<"'","'","'">>,
      <<"\"","\"","\"">> }

IsPrefix(p, s) == Len(p) <= Len(s) /\ SubSeq(s, 1, Len(p)) = p

\* the pattern of line 539 with the keyword followed by any character
KeywordMatchNoBoundary(l) ==
    \E k \in Keywords : IsPrefix(k, LStrip(l))

\* re.match(r'^\s*(def|...|del)\b', line)
KeywordMatch(l) ==
    LET rest == LStrip(l)
    IN  \E k \in Keywords :
            /\ IsPrefix(k, rest)
            /\ Len(rest) = Len(k) \/ rest[Len(k) + 1] \notin WordChars

\* re.search(r'(\'|"|f\'|f"|\'\'\'|""")', line)
QuoteSearch(l) ==
    \E i \in 1..Len(l) : \E q \in QuotePatterns :
        i + Len(q) - 1 <= Len(l) /\ SubSeq(l, i, i + Len(q) - 1) = q

\* lines 533-543: the colour the line is drawn in
Classify(l) ==
    IF IsPrefix(<<"#">>, Strip(l)) THEN "CODE_COLOR_COMMENT"
    ELSE IF KeywordMatch(l) THEN "CODE_COLOR_KEYWORD"
    ELSE IF QuoteSearch(l) THEN "CODE_COLOR_STRING"
    ELSE "CODE_COLOR_DEFAULT"

\* lines 533-543 for one line
ClassifyLine ==
    /\ cpc = "start"
    /\ color' = Classify(line)
    /\ cpc' = "done"
    /\ UNCHANGED line
    /\ UNCHANGED notClassifyVars

-----------------------------------------------------------------------------
(* create_text_image: the layout pass *)

VIDEO_WIDTH == 1080
VIDEO_HEIGHT == 1920
PADDING_X == 60
TOP_PROMPT_Y == 60
TITLE_FONT_SIZE == 65
CODE_FONT_SIZE == 50
OPTION_FONT_SIZE == 55
PROMPT_FONT_SIZE == 40
BOTTOM_MARGIN == 50
line_spacing_title == 15
line_spacing_code == 10
line_spacing_option == 10
block_spacing == 40
option_inter_box_spacing == 25
code_block_padding_y == 20
option_box_internal_padding_y == 15
option_box_internal_padding_x == 15

content_width == VIDEO_WIDTH - 2 * PADDING_X
option_wrap_width == content_width - (2 * option_box_internal_padding_x)

prompt_text ==
    <<"T","a","p"," ","t","o"," ","p","a","u","s","e","!"," ","A","n","s",
      "w","e","r"," ","i","n"," ","c","o","m","m","e","n","t","s","!">>

IMAGE_CACHE == "output/question_image.png"

\* Python's None, as the value create_text_image returns
None == "None"

\* dict.get(key, default): a dict is a function on the keys it holds
Get(d, key, default) == IF key \in DOMAIN d THEN d[key] ELSE default

\* the placeholders of lines 483, 496 and 554
QuestionMissing ==
    <<"E","r","r","o","r",":"," ","Q","u","e","s","t","i","o","n"," ","m",
      "i","s","s","i","n","g">>
CodeMissing ==
    <<"#"," ","E","r","r","o","r",":"," ","C","o","d","e"," ","m","i","s",
      "s","i","n","g">>
OptionMissing ==
    <<"E","r","r","o","r",":"," ","O","p","t","i","o","n","s"," ","m","i",
      "s","s","i","n","g">>

\* line 554 without the `* 4'
OneOptionMissing == <<OptionMissing>>

\* line 554: the default of the options
OptionsMissing == <<OptionMissing, OptionMissing, OptionMissing, OptionMissing>>

\* ImageFont.truetype(path, size) as get_text_size sees it: a fixed-width
\* face, 3/5 of the size wide; a text is 7/10 of the size high, the full size
\* if it holds a `b'
TrueType(size) ==
    [kind |-> "bbox", cw |-> (3 * size) \div 5, wide |-> (3 * size) \div 5,
     sp |-> (3 * size) \div 5, h |-> (7 * size) \div 10, tall |-> size]

\* ImageFont.load_default(): the 6 x 11 bitmap face
DefaultFont ==
    [kind |-> "bbox", cw |-> 6, wide |-> 6, sp |-> 6, h |-> 11, tall |-> 11]

\* a face whose lines are all 100 px high
TallFont ==
    [kind |-> "bbox", cw |-> 30, wide |-> 30, sp |-> 30, h |-> 100, tall |-> 100]

\* lines 447-451
TrueTypeFonts ==
    [title_font |-> TrueType(TITLE_FONT_SIZE),
     code_font |-> TrueType(CODE_FONT_SIZE),
     option_font |-> TrueType(OPTION_FONT_SIZE),
     prompt_font |-> TrueType(PROMPT_FONT_SIZE)]

\* lines 453-456
DefaultFonts ==
    [title_font |-> DefaultFont, code_font |-> DefaultFont,
     option_font |-> DefaultFont, prompt_font |-> DefaultFont]

TallFonts ==
    [title_font |-> TallFont, code_font |-> TallFont,
     option_font |-> TallFont, prompt_font |-> TallFont]

\* bytes.decode('unicode_escape') of line 498 on the model's characters: a
\* backslash with n, t, a backslash or a quote is the character it names, any
\* other backslash stays
RECURSIVE DecodeEscapes(_)
DecodeEscapes(s) ==
    IF s = <<>> THEN <<>>
    ELSE IF s[1] # "\\" \/ Len(s) = 1
    THEN <<s[1]>> \o DecodeEscapes(Tail(s))
    ELSE LET c == CASE s[2] = "n" -> <<"\n">>
                    [] s[2] = "t" -> <<"\t">>
                    [] s[2] \in {"\\", "'", "\""} -> <<s[2]>>
                    [] OTHER -> <<"\\", s[2]>>
         IN  c \o DecodeEscapes(SubSeq(s, 3, Len(s)))

\* line 498 raises: a backslash ends the text
RECURSIVE DecodeRaises(_)
DecodeRaises(s) ==
    IF s = <<>> THEN FALSE
    ELSE IF s[1] # "\\" THEN DecodeRaises(Tail(s))
    ELSE IF Len(s) = 1 THEN TRUE
    ELSE DecodeRaises(SubSeq(s, 3, Len(s)))

\* the height get_text_size gives the line, a space standing for an empty line
LineHeight(f, l) == GetTextSize(f, IF l # <<>> THEN l ELSE <<" ">>)[2]

\* lines 505-508 and 566-568: the sum of the lines' heights, each followed by
\* the spacing
RECURSIVE ContentHeight(_, _, _)
ContentHeight(f, ls, spacing) ==
    IF ls = <<>> THEN 0
    ELSE LineHeight(f, Head(ls)) + spacing + ContentHeight(f, Tail(ls), spacing)

\* lines 501-513: code_block_content_height
code_block_content_height(f, code_lines) ==
    IF code_lines # <<>>
    THEN ContentHeight(f, code_lines, line_spacing_code) - line_spacing_code
    ELSE GetTextSize(f, <<" ">>)[2]

\* lines 564-572: option_content_height
option_content_height(f, wrapped_option_lines) ==
    IF wrapped_option_lines # <<>>
    THEN ContentHeight(f, wrapped_option_lines, line_spacing_option)
             - line_spacing_option
    ELSE GetTextSize(f, <<" ">>)[2]

\* lines 563-574: dynamic_option_box_height
dynamic_option_box_height(f, option_text) ==
    option_content_height(f, WrapText(option_text, f, option_wrap_width))
        + (2 * option_box_internal_padding_y)

\* line 585 as `continue': the loop goes on after an overflow
OverflowContinue == "option_loop"

\* line 585: break leaves the option loop
OverflowExit == "adjust"

\* line 607 without the height of the box
NextOptionYOverlap(y_start, y_end) == y_start + option_inter_box_spacing

\* line 607: the cursor below the box
NextOptionY(y_start, y_end) == y_end + option_inter_box_spacing

\* the overflow check reading the top of the box
OverflowsTop(y_start, y_end) == y_start > VIDEO_HEIGHT - BOTTOM_MARGIN

\* line 580: the overflow check
Overflows(y_start, y_end) == y_end > VIDEO_HEIGHT - BOTTOM_MARGIN

\* the code lines with their colours
ColoredLines(code_lines) ==
    [k \in 1..Len(code_lines) |->
        [text |-> code_lines[k], color |-> Classify(code_lines[k])]]

\* lines 464-480: the prompt is drawn at the top
DrawPrompt ==
    /\ lpc = "start"
    /\ LET prompt_height == GetTextSize(fonts.prompt_font, prompt_text)[2]
       IN  /\ plan' = Append(plan, [kind |-> "prompt", index |-> 0,
                                    top |-> TOP_PROMPT_Y,
                                    bottom |-> TOP_PROMPT_Y + prompt_height,
                                    lines |-> <<prompt_text>>])
           /\ current_y' = TOP_PROMPT_Y + prompt_height + block_spacing
    /\ lpc' = "question"
    /\ UNCHANGED <<question_data, fonts, question_lines, qidx, options, option_i,
                   box_y_start, box_y_end, image_path, error>>
    /\ UNCHANGED first_call
    /\ UNCHANGED notLayoutVars

\* lines 483-486: the question is wrapped
WrapQuestion ==
    /\ lpc = "question"
    /\ question_lines' =
           WrapText(Get(question_data, "question", QuestionMissing),
                    fonts.title_font, content_width)
    /\ qidx' = 1
    /\ plan' = Append(plan, [kind |-> "text", index |-> 0, top |-> current_y,
                             bottom |-> current_y, lines |-> <<>>])
    /\ lpc' = "question_lines"
    /\ UNCHANGED <<question_data, fonts, current_y, options, option_i, box_y_start,
                   box_y_end, image_path, error>>
    /\ UNCHANGED first_call
    /\ UNCHANGED notLayoutVars

\* lines 487-491: one line of the question is drawn
DrawQuestionLine ==
    /\ lpc = "question_lines"
    /\ qidx <= Len(question_lines)
    /\ LET l == question_lines[qidx]
           actual_line_height == GetTextSize(fonts.title_font, l)[2]
           block == plan[Len(plan)]
       IN  /\ plan' = [plan EXCEPT ![Len(plan)] =
                          [block EXCEPT !.bottom = current_y + actual_line_height,
                                        !.lines = Append(block.lines, l)]]
           /\ current_y' = current_y + actual_line_height + line_spacing_title
    /\ qidx' = qidx + 1
    /\ UNCHANGED <<question_data, fonts, question_lines, options, option_i,
                   box_y_start, box_y_end, image_path, lpc, error>>
    /\ UNCHANGED first_call
    /\ UNCHANGED notLayoutVars

\* line 493 without the block spacing: the last line spacing is taken back
EndQuestionTakeBack ==
    /\ lpc = "question_lines"
    /\ qidx > Len(question_lines)
    /\ current_y' = current_y - line_spacing_title
    /\ lpc' = "code"
    /\ UNCHANGED <<question_data, fonts, question_lines, qidx, options, option_i,
                   box_y_start, box_y_end, image_path, plan, error>>
    /\ UNCHANGED first_call
    /\ UNCHANGED notLayoutVars

\* line 493: the spacing below the question
EndQuestion ==
    /\ lpc = "question_lines"
    /\ qidx > Len(question_lines)
    /\ current_y' = current_y + block_spacing - line_spacing_title
    /\ lpc' = "code"
    /\ UNCHANGED <<question_data, fonts, question_lines, qidx, options, option_i,
                   box_y_start, box_y_end, image_path, plan, error>>
    /\ UNCHANGED first_call
    /\ UNCHANGED notLayoutVars

\* lines 496-551: the code box and its lines; a text that cannot be decoded
\* raises, and line 623 returns None
DrawCodeBlock ==
    /\ lpc = "code"
    /\ LET code_text == Get(question_data, "code", CodeMissing)
           code_text_display == DecodeEscapes(code_text)
       IN  IF DecodeRaises(code_text)
           THEN /\ image_path' = None
                /\ lpc' = "failed"
                /\ error' = "UnicodeDecodeError"
                /\ UNCHANGED <<current_y, plan>>
           ELSE LET code_lines == Split(code_text_display, "\n")
                    code_block_total_height ==
                        code_block_content_height(fonts.code_font, code_lines)
                            + 2 * code_block_padding_y
                    code_box_y_start == current_y
                    code_box_y_end == code_box_y_start + code_block_total_height
                IN  /\ plan' = Append(plan,
                           [kind |-> "code", index |-> 0,
                            top |-> code_box_y_start,
                            bottom |-> code_box_y_end,
                            lines |-> ColoredLines(code_lines)])
                    /\ current_y' = code_box_y_end + block_spacing
                    /\ lpc' = "options"
                    /\ UNCHANGED <<image_path, error>>
    /\ UNCHANGED <<question_data, fonts, question_lines, qidx, options, option_i,
                   box_y_start, box_y_end>>
    /\ UNCHANGED first_call
    /\ UNCHANGED notLayoutVars

\* lines 554-557: the options are read
ReadOptions ==
    /\ lpc = "options"
    /\ options' = Get(question_data, "options", OptionsMissing)
    /\ lpc' = "option_loop"
    /\ UNCHANGED <<question_data, fonts, current_y, question_lines, qidx, option_i,
                   box_y_start, box_y_end, image_path, plan, error>>
    /\ UNCHANGED first_call
    /\ UNCHANGED notLayoutVars

\* lines 559-607: one option; option_i is the loop index i, -1 while unbound
OptionStep ==
    /\ lpc = "option_loop"
    /\ option_i + 1 < Len(options)
    /\ LET option_text == options[option_i + 2]
           y_start == current_y
           y_end == y_start
                        + dynamic_option_box_height(fonts.option_font, option_text)
       IN  /\ option_i' = option_i + 1
           /\ box_y_start' = y_start
           /\ box_y_end' = y_end
           /\ IF Overflows(y_start, y_end)
              THEN /\ lpc' = OverflowExit
                   /\ UNCHANGED <<current_y, plan>>
              ELSE /\ plan' = Append(plan,
                          [kind |-> "option", index |-> option_i + 1,
                           top |-> y_start, bottom |-> y_end,
                           lines |-> WrapText(option_text, fonts.option_font,
                                              option_wrap_width)])
                   /\ current_y' = NextOptionY(y_start, y_end)
                   /\ UNCHANGED lpc
    /\ UNCHANGED <<question_data, fonts, question_lines, qidx, options,
                   image_path, error>>
    /\ UNCHANGED first_call
    /\ UNCHANGED notLayoutVars

\* line 559: the options are used up
EndOptions ==
    /\ lpc = "option_loop"
    /\ option_i + 1 >= Len(options)
    /\ lpc' = "adjust"
    /\ UNCHANGED <<question_data, fonts, current_y, question_lines, qidx,
                   options, option_i, box_y_start, box_y_end, image_path, plan, error>>
    /\ UNCHANGED first_call
    /\ UNCHANGED notLayoutVars

\* lines 611-612: the last spacing is taken back; without any option i is
\* unbound, the test raises and line 623 returns None
AdjustCursor ==
    /\ lpc = "adjust"
    /\ IF option_i = -1
       THEN /\ image_path' = None
            /\ lpc' = "failed"
            /\ error' = "UnboundLocalError"
            /\ UNCHANGED current_y
       ELSE /\ current_y' =
                   IF option_i = Len(options) - 1 /\ ~Overflows(box_y_start, box_y_end)
                   THEN current_y - option_inter_box_spacing
                   ELSE current_y
            /\ lpc' = "save"
            /\ UNCHANGED <<image_path, error>>
    /\ UNCHANGED <<question_data, fonts, question_lines, qidx, options, option_i,
                   box_y_start, box_y_end, plan>>
    /\ UNCHANGED first_call
    /\ UNCHANGED notLayoutVars

\* lines 618-621 with the overflow as a failure: the path is returned only if
\* every option was drawn
SaveImageIfComplete ==
    /\ lpc = "save"
    /\ image_path' = IF Overflows(box_y_start, box_y_end) THEN None ELSE IMAGE_CACHE
    /\ lpc' = "done"
    /\ UNCHANGED <<question_data, fonts, current_y, question_lines, qidx,
                   options, option_i, box_y_start, box_y_end, plan, error>>
    /\ UNCHANGED first_call
    /\ UNCHANGED notLayoutVars

\* lines 618-621: the image is saved and its path returned
SaveImage ==
    /\ lpc = "save"
    /\ image_path' = IMAGE_CACHE
    /\ lpc' = "done"
    /\ UNCHANGED <<question_data, fonts, current_y, question_lines, qidx,
                   options, option_i, box_y_start, box_y_end, plan, error>>
    /\ UNCHANGED first_call
    /\ UNCHANGED notLayoutVars

\* lines 446-462: a face cannot be loaded; None is returned
FontLoadFails ==
    /\ lpc = "start"
    /\ image_path' = None
    /\ error' = "font"
    /\ lpc' = "failed"
    /\ UNCHANGED <<question_data, fonts, current_y, question_lines, qidx,
                   options, option_i, box_y_start, box_y_end, plan>>
    /\ UNCHANGED first_call
    /\ UNCHANGED notLayoutVars

\* the steps that call the drawing backend: the overlay and the prompt, a line
\* of the question, the code box, an option box, the conversion and the save
BackendSteps == {"start", "question_lines", "code", "option_loop", "save"}

\* lines 623-626: the backend raises in a drawing step, the conversion or the
\* save; the exception is caught and None is returned
BackendFails ==
    /\ lpc \in BackendSteps
    /\ image_path' = None
    /\ error' = "backend"
    /\ lpc' = "failed"
    /\ UNCHANGED <<question_data, fonts, current_y, question_lines, qidx,
                   options, option_i, box_y_start, box_y_end, plan>>
    /\ UNCHANGED first_call
    /\ UNCHANGED notLayoutVars

\* the locals of a call as if they outlived the call before
LocalsKept(kept) == kept

\* lines 405-444: every call starts with locals of its own; the cursor, the
\* wrapped question, the options and the loop index are unbound
Locals(kept) ==
    [current_y |-> 0, question_lines |-> <<>>, qidx |-> 0, options |-> <<>>,
     option_i |-> -1, box_y_start |-> 0, box_y_end |-> 0]

\* the failures that the record decides: the code text that cannot be
\* decoded and the empty options
RecordErrors == {"", "UnicodeDecodeError", "UnboundLocalError"}

\* lines 405-462: create_text_image has returned and is called a second time
\* with the same record and the same fonts
CallAgain ==
    /\ lpc \in {"done", "failed"}
    /\ error \in RecordErrors
    /\ DOMAIN first_call = {}
    /\ first_call' = [plan |-> plan, image_path |-> image_path, error |-> error]
    /\ LET locals == Locals([current_y |-> current_y,
                             question_lines |-> question_lines, qidx |-> qidx,
                             options |-> options, option_i |-> option_i,
                             box_y_start |-> box_y_start,
                             box_y_end |-> box_y_end])
       IN  /\ current_y' = locals.current_y
           /\ question_lines' = locals.question_lines
           /\ qidx' = locals.qidx
           /\ options' = locals.options
           /\ option_i' = locals.option_i
           /\ box_y_start' = locals.box_y_start
           /\ box_y_end' = locals.box_y_end
    /\ image_path' = None
    /\ plan' = <<>>
    /\ error' = ""
    /\ lpc' = "start"
    /\ UNCHANGED <<question_data, fonts>>
    /\ UNCHANGED notLayoutVars

\* create_text_image is not running
LayoutIdle ==
    /\ question_data = <<>>
    /\ fonts = DefaultFonts
    /\ current_y = 0
    /\ question_lines = <<>>
    /\ qidx = 0
    /\ options = <<>>
    /\ option_i = -1
    /\ box_y_start = 0
    /\ box_y_end = 0
    /\ image_path = None
    /\ lpc = "idle"
    /\ plan = <<>>
    /\ error = ""
    /\ first_call = <<>>

-----------------------------------------------------------------------------
(* create_video: the answer lookup *)

LowerCase ==
    <<"a","b","c","d","e","f","g","h","i","j","k","l","m",
      "n","o","p","q","r","s","t","u","v","w","x","y","z">>
UpperCase ==
    <<"A","B","C","D","E","F","G","H","I","J","K","L","M",
      "N","O","P","Q","R","S","T","U","V","W","X","Y","Z">>

\* str.upper() of one character
UpperChar(c) ==
    IF \E k \in 1..Len(LowerCase) : LowerCase[k] = c
    THEN UpperCase[CHOOSE k \in 1..Len(LowerCase) : LowerCase[k] = c]
    ELSE c

\* str.upper()
Upper(s) == [k \in 1..Len(s) |-> UpperChar(s[k])]

\* the class [\s).:\]] of line 688
Separators == Whitespace \cup {")", ".", ":", "]"}

\* line 688 without re.IGNORECASE
SeparatorMatchCaseSensitive(letter, opt_str) ==
    /\ Len(opt_str) > Len(letter)
    /\ SubSeq(opt_str, 1, Len(letter)) = letter
    /\ opt_str[Len(letter) + 1] \in Separators

\* line 688: re.match of ^\s*<letter>[\s).:\]] on the stripped option,
\* ignoring case; the letter is in upper case and the option has no leading
\* whitespace
SeparatorMatch(letter, opt_str) ==
    /\ Len(opt_str) > Len(letter)
    /\ Upper(SubSeq(opt_str, 1, Len(letter))) = letter
    /\ opt_str[Len(letter) + 1] \in Separators

\* line 692: opt_str.upper().startswith(correct_answer_letter)
StartsWithLetter(letter, opt_str) == IsPrefix(letter, Upper(opt_str))

\* line 681: the fallback text
Placeholder(letter) == <<"(">> \o letter \o <<")">>

\* line 695: the text before the answer, its first character the check mark
AnswerPrefix == <<"U+2705", " ", "A", "n", "s", "w", "e", "r", ":", " ">>

\* lines 679-681
ReadAnswer ==
    /\ vpc = "start"
    /\ correct_answer_letter' =
           Upper(Strip(Get(video_question_data, "correct_answer", <<"?">>)))
    /\ video_options' = Get(video_question_data, "options", <<>>)
    /\ correct_option_full_text' = Placeholder(correct_answer_letter')
    /\ opt_index' = 1
    /\ vpc' = "scan"
    /\ UNCHANGED <<video_question_data, answer_display_text>>
    /\ UNCHANGED notAnswerVars

\* lines 684-693: one option is looked at
ScanOption ==
    /\ vpc = "scan"
    /\ opt_index <= Len(video_options)
    /\ LET opt_str == Strip(video_options[opt_index])
       IN  IF SeparatorMatch(correct_answer_letter, opt_str)
           THEN /\ correct_option_full_text' = opt_str
                /\ vpc' = "show"
                /\ UNCHANGED opt_index
           ELSE /\ correct_option_full_text' =
                       IF StartsWithLetter(correct_answer_letter, opt_str)
                       THEN opt_str
                       ELSE correct_option_full_text
                /\ opt_index' = opt_index + 1
                /\ UNCHANGED vpc
    /\ UNCHANGED <<video_question_data, correct_answer_letter, video_options,
                   answer_display_text>>
    /\ UNCHANGED notAnswerVars

\* line 684: the options are used up
EndScan ==
    /\ vpc = "scan"
    /\ opt_index > Len(video_options)
    /\ vpc' = "show"
    /\ UNCHANGED <<video_question_data, correct_answer_letter, video_options,
                   opt_index, correct_option_full_text, answer_display_text>>
    /\ UNCHANGED notAnswerVars

\* line 695
ShowAnswer ==
    /\ vpc = "show"
    /\ answer_display_text' = AnswerPrefix \o correct_option_full_text
    /\ vpc' = "done"
    /\ UNCHANGED <<video_question_data, correct_answer_letter, video_options,
                   opt_index, correct_option_full_text>>
    /\ UNCHANGED notAnswerVars

\* the lookup is not running
AnswerIdle ==
    /\ video_question_data = <<>>
    /\ correct_answer_letter = <<>>
    /\ video_options = <<>>
    /\ opt_index = 0
    /\ correct_option_full_text = <<>>
    /\ answer_display_text = <<>>
    /\ vpc = "idle"

-----------------------------------------------------------------------------
(* get_sample_question *)

\* the sample question of get_sample_question (lines 297-307)
SampleQuestion ==
    <<"W","h","a","t"," ","d","a","t","a"," ","s","t","r","u","c","t","u",
      "r","e"," ","r","e","s","u","l","t","s"," ","f","r","o","m"," ","t",
      "h","i","s"," ","P","y","t","h","o","n"," ","c","o","d","e","?">>
SampleCode ==
    <<"d","a","t","a"," ","="," ","{","i",":"," ","i","*","i"," ","f","o",
      "r"," ","i"," ","i","n"," ","r","a","n","g","e","(","5",")","}","\n",
      "p","r","i","n","t","(","t","y","p","e","(","d","a","t","a",")",")">>
SampleOptionA ==
    <<"A",")"," ","L","i","s","t">>
SampleOptionB ==
    <<"B",")"," ","T","u","p","l","e">>
SampleOptionC ==
    <<"C",")"," ","S","e","t"," ","o","f"," ","k","e","y","-","v","a","l",
      "u","e"," ","p","a","i","r","s"," ","r","e","p","r","e","s","e","n",
      "t","i","n","g"," ","s","q","u","a","r","e","s"," ","(","D","i","c",
      "t","i","o","n","a","r","y",")">>
SampleOptionD ==
    <<"D",")"," ","A","r","r","a","y">>

\* lines 297-307: the record returned
SampleRecord ==
    [question |-> SampleQuestion, code |-> SampleCode,
     options |-> <<SampleOptionA, SampleOptionB, SampleOptionC, SampleOptionD>>,
     correct_answer |-> <<"C">>]

-----------------------------------------------------------------------------
(* clean_string_value *)

\* the string without its first n characters, without its last n characters
Drop(s, n) == SubSeq(s, n + 1, Len(s))
DropLast(s, n) == SubSeq(s, 1, Len(s) - n)

IsSuffix(p, s) == Len(p) <= Len(s) /\ SubSeq(s, Len(s) - Len(p) + 1, Len(s)) = p

\* a prefix matched under re.IGNORECASE
IsPrefixIgnoreCase(p, s) == IsPrefix(Upper(p), Upper(s))

\* the grave accent (U+0060) of the fence of lines 98 and 104, written as the
\* character ~, which no text of the model holds otherwise
Backtick == "~"
Fence == <<Backtick, Backtick, Backtick>>
TripleSingle == <<"'", "'", "'">>
TripleDouble == <<"\"", "\"", "\"">>
Quotes == {"'", "\""}
WordPython == <<"p", "y", "t", "h", "o", "n">>
WordJson == <<"j", "s", "o", "n">>
WordText == <<"t", "e", "x", "t">>

\* (?:w1|w2|...|) of lines 98-100: the first of the words the string begins
\* with is taken off, none if it begins with none
RECURSIVE DropWord(_, _)
DropWord(s, ws) ==
    IF ws = <<>> THEN s
    ELSE IF IsPrefixIgnoreCase(Head(ws), s) THEN Drop(s, Len(Head(ws)))
    ELSE DropWord(s, Tail(ws))

\* re.sub of one pattern of patterns_start (lines 98-100): the opening mark,
\* the word after it and the whitespace after that
SubStart(s, mark, ws) ==
    IF IsPrefix(mark, s) THEN LStrip(DropWord(Drop(s, Len(mark)), ws)) ELSE s

\* line 101: a leading quote
SubStartQuote(s) == IF s # <<>> /\ Head(s) \in Quotes THEN Tail(s) ELSE s

\* lines 115-116: the four patterns of patterns_start in turn
StartPass(s) ==
    SubStartQuote(
        SubStart(
            SubStart(SubStart(s, Fence, <<WordPython, WordJson, WordText>>),
                     TripleSingle, <<WordPython>>),
            TripleDouble, <<WordPython>>))

\* lines 112-119: the passes go on as long as one shortens the text
RECURSIVE CleanStart(_)
CleanStart(s) ==
    LET t == StartPass(s)
    IN  IF Len(t) # Len(s) THEN CleanStart(Strip(t)) ELSE Strip(t)

\* re.sub of one pattern of patterns_end (lines 104-106): the closing mark and
\* the whitespace before it
SubEnd(s, mark) ==
    IF IsSuffix(mark, s) THEN RStrip(DropLast(s, Len(mark))) ELSE s

\* line 107: a trailing quote
SubEndQuote(s) == IF s # <<>> /\ s[Len(s)] \in Quotes THEN DropLast(s, 1) ELSE s

\* lines 126-127: the four patterns of patterns_end in turn
EndPass(s) ==
    SubEndQuote(SubEnd(SubEnd(SubEnd(s, Fence), TripleSingle), TripleDouble))

\* lines 123-130
RECURSIVE CleanEnd(_)
CleanEnd(s) ==
    LET t == EndPass(s)
    IN  IF Len(t) # Len(s) THEN CleanEnd(Strip(t)) ELSE Strip(t)

\* clean_string_value(text) for a string (lines 88-132)
clean_string_value(s) == CleanEnd(CleanStart(Strip(s)))

-----------------------------------------------------------------------------
(* fetch_question *)

\* None as fetch_question returns it and as question_data holds it: a record
\* without any key, which main treats like None (line 821)
NoRecord == [k \in {} |-> <<>>]

\* A value of the parsed JSON object carries its type: t is "str", "int" or
\* "list", v the string, the number or the list of such values.  A key the
\* object does not hold gives None.
JsonNone == [t |-> "none", v |-> 0]
Str(s) == [t |-> "str", v |-> s]
JsonList(vs) == [t |-> "list", v |-> vs]
JsonGet(data, key) == IF key \in DOMAIN data THEN data[key] ELSE JsonNone

\* isinstance(x, str)
IsStr(x) == x.t = "str"

\* `sub in s'
RECURSIVE Contains(_, _)
Contains(s, sub) ==
    IF Len(s) < Len(sub) THEN FALSE
    ELSE IsPrefix(sub, s) \/ Contains(Tail(s), sub)

\* line 229: str.replace('\n', '\\n')
RECURSIVE EscapeNewlines(_)
EscapeNewlines(s) ==
    IF s = <<>> THEN <<>>
    ELSE (IF Head(s) = "\n" THEN <<"\\", "n">> ELSE <<Head(s)>>)
             \o EscapeNewlines(Tail(s))

\* lines 221-229: the code cleaned, its line breaks escaped if it holds no
\* escaped one
CleanCode(c) ==
    LET cleaned == clean_string_value(c)
    IN  IF ~Contains(cleaned, <<"\\", "n">>) /\ Contains(Strip(cleaned), <<"\n">>)
        THEN EscapeNewlines(cleaned)
        ELSE cleaned

Markers == {<<"A", ")">>, <<"B", ")">>, <<"C", ")">>, <<"D", ")">>}

\* line 241 without the test of the markers
MarkerMatchAny(opt) == TRUE

\* line 241: any(re.match(p, opt.strip(), re.IGNORECASE) for p in
\* valid_prefixes)
MarkerMatch(opt) == \E m \in Markers : IsPrefixIgnoreCase(m, Strip(opt))

\* line 236: a list of 4 strings
FourStrings(o) ==
    /\ o.t = "list"
    /\ Len(o.v) = 4
    /\ \A k \in 1..Len(o.v) : IsStr(o.v[k])

\* line 237: the options cleaned
CleanOptions(o) == [k \in 1..Len(o.v) |-> clean_string_value(o.v[k].v)]

\* line 253: the answer cleaned, trimmed and in upper case
CleanAnswer(a) == Upper(Strip(clean_string_value(a)))

\* line 254: re.match(r'^[A-D]$', cleaned_ca)
AnswerMatch(ca) == ca \in {<<"A">>, <<"B">>, <<"C">>, <<"D">>}

\* lines 204-269: the parsed object is validated field by field; the value
\* is the record of the cleaned fields, or None
Validate(data) ==
    LET q_val == JsonGet(data, "question")
        c_val == JsonGet(data, "code")
        o_val == JsonGet(data, "options")
        ca_val == JsonGet(data, "correct_answer")
        is_valid ==
            /\ IsStr(q_val)
            /\ IsStr(c_val)
            /\ FourStrings(o_val)
            /\ \A k \in 1..4 : MarkerMatch(CleanOptions(o_val)[k])
            /\ IsStr(ca_val)
            /\ AnswerMatch(CleanAnswer(ca_val.v))
    IN  IF is_valid
        THEN [question |-> clean_string_value(q_val.v),
              code |-> CleanCode(c_val.v),
              options |-> CleanOptions(o_val),
              correct_answer |-> CleanAnswer(ca_val.v)]
        ELSE NoRecord

-----------------------------------------------------------------------------
(* main *)

FONT_PATH == "assets/arial.ttf"

\* the keys main asks of the record (line 826)
RequiredKeys == {"question", "code", "options", "correct_answer"}

\* line 821 without the sample question
NeverNoRecord(d) == FALSE

\* line 821: `not question_data'
IsNoRecord(d) == DOMAIN d = {}

\* line 826: the record is a dict with the four keys
ValidRecord(d) == RequiredKeys \subseteq DOMAIN d

\* line 854 without the test
ImageAlways(path) == TRUE

\* line 854: `if image_path'
ImageOk(path) == path # None

\* line 811: find_font leaves the path of a face, or None
FindFont ==
    /\ mpc = "start"
    /\ DETECTED_FONT_PATH' \in {FONT_PATH, None}
    /\ mpc' = "fetch"
    /\ UNCHANGED <<main_question_data, main_image_path, absorbed>>
    /\ UNCHANGED notMainVars

\* lines 814-816: fetch_question returns a record it has validated (line 265)
\* or None (lines 269-291)
FetchQuestion(result) ==
    /\ mpc = "fetch"
    /\ main_question_data' = result
    /\ absorbed' = IF IsNoRecord(result) THEN absorbed \cup {"fetch"}
                   ELSE absorbed
    /\ mpc' = "fallback"
    /\ UNCHANGED <<DETECTED_FONT_PATH, main_image_path>>
    /\ UNCHANGED notMainVars

\* lines 817-819: fetch_question raises; question_data stays None
FetchRaises ==
    /\ mpc = "fetch"
    /\ main_question_data' = NoRecord
    /\ absorbed' = absorbed \cup {"fetch"}
    /\ mpc' = "fallback"
    /\ UNCHANGED <<DETECTED_FONT_PATH, main_image_path>>
    /\ UNCHANGED notMainVars

\* lines 821-830: the sample question replaces a missing record; a record
\* without the four keys ends main at line 829
CheckRecord ==
    /\ mpc = "fallback"
    /\ LET d == IF IsNoRecord(main_question_data) THEN SampleRecord
                ELSE main_question_data
       IN  /\ main_question_data' = d
           /\ mpc' = IF ValidRecord(d) THEN "cache" ELSE "returned"
    /\ UNCHANGED <<DETECTED_FONT_PATH, main_image_path, absorbed>>
    /\ UNCHANGED notMainVars

\* lines 839-845: the record is written to the cache file; an error is printed
\* and main goes on
SaveCache(ok) ==
    /\ mpc = "cache"
    /\ absorbed' = IF ok THEN absorbed ELSE absorbed \cup {"cache"}
    /\ mpc' = "image"
    /\ UNCHANGED <<DETECTED_FONT_PATH, main_question_data, main_image_path>>
    /\ UNCHANGED notMainVars

\* lines 849-852 and 405-456: create_text_image is called with the record; the
\* faces are those of DETECTED_FONT_PATH, or the default face
CallCreateTextImage ==
    /\ mpc = "image"
    /\ lpc = "idle"
    /\ question_data' = main_question_data
    /\ fonts' = IF DETECTED_FONT_PATH # None THEN TrueTypeFonts ELSE DefaultFonts
    /\ lpc' = "start"
    /\ mpc' = "in_image"
    /\ UNCHANGED <<current_y, question_lines, qidx, options, option_i,
                   box_y_start, box_y_end, image_path, plan, error, first_call>>
    /\ UNCHANGED <<DETECTED_FONT_PATH, main_question_data, main_image_path,
                   absorbed>>
    /\ UNCHANGED <<wrapVars, classifyVars, answerVars, sizeVars>>

\* line 852: create_text_image has returned
ImageReturns ==
    /\ mpc = "in_image"
    /\ lpc \in {"done", "failed"}
    /\ main_image_path' = image_path
    /\ absorbed' = IF image_path = None THEN absorbed \cup {"image"} ELSE absorbed
    /\ mpc' = "video"
    /\ UNCHANGED <<DETECTED_FONT_PATH, main_question_data>>
    /\ UNCHANGED notMainVars

\* lines 860-861: without an image there is no video
SkipVideo ==
    /\ mpc = "video"
    /\ ~ImageOk(main_image_path)
    /\ mpc' = "finish"
    /\ UNCHANGED <<DETECTED_FONT_PATH, main_question_data, main_image_path,
                   absorbed>>
    /\ UNCHANGED notMainVars

\* lines 854-856 and 630-678: create_video is called with the path and the
\* record
CallCreateVideo ==
    /\ mpc = "video"
    /\ ImageOk(main_image_path)
    /\ vpc = "idle"
    /\ video_question_data' = main_question_data
    /\ vpc' = "start"
    /\ mpc' = "in_video"
    /\ UNCHANGED <<correct_answer_letter, video_options, opt_index,
                   correct_option_full_text, answer_display_text>>
    /\ UNCHANGED <<DETECTED_FONT_PATH, main_question_data, main_image_path,
                   absorbed>>
    /\ UNCHANGED <<wrapVars, classifyVars, layoutVars, sizeVars>>

\* lines 632-634 and 781-783: the image file is gone, or a clip cannot be
\* made, composed or written; create_video prints the error and returns
VideoFails ==
    /\ mpc = "in_video"
    /\ vpc \in {"start", "scan", "show", "done"}
    /\ vpc' = "failed"
    /\ absorbed' = absorbed \cup {"video"}
    /\ UNCHANGED <<video_question_data, correct_answer_letter, video_options,
                   opt_index, correct_option_full_text, answer_display_text>>
    /\ UNCHANGED <<mpc, DETECTED_FONT_PATH, main_question_data, main_image_path>>
    /\ UNCHANGED <<wrapVars, classifyVars, layoutVars, sizeVars>>

\* lines 784-799 and 856: create_video has returned, its clips closed
VideoReturns ==
    /\ mpc = "in_video"
    /\ vpc \in {"done", "failed"}
    /\ mpc' = "finish"
    /\ UNCHANGED <<DETECTED_FONT_PATH, main_question_data, main_image_path,
                   absorbed>>
    /\ UNCHANGED notMainVars

\* lines 863-864: `Process finished' is printed
Finish ==
    /\ mpc = "finish"
    /\ mpc' = "finished"
    /\ UNCHANGED <<DETECTED_FONT_PATH, main_question_data, main_image_path,
                   absorbed>>
    /\ UNCHANGED notMainVars

\* main is not running
MainIdle ==
    /\ mpc = "idle"
    /\ DETECTED_FONT_PATH = None
    /\ main_question_data = NoRecord
    /\ main_image_path = None
    /\ absorbed = {}

-----------------------------------------------------------------------------
(* Inputs and specifications *)

\* the loop is not running
ClassifyIdle ==
    /\ line = <<>>
    /\ color = "CODE_COLOR_DEFAULT"
    /\ cpc = "idle"

\* the characters of SpecWrap's texts
WrapAlphabet == {"a", "b", " ", "\n"}

\* the example of the wrap scenario
QuickBrownFox ==
    <<"t","h","e"," ","q","u","i","c","k"," ","b","r","o","w","n"," ",
      "f","o","x"," ","j","u","m","p","s">>

WrapTexts == StringsUpTo(WrapAlphabet, MaxLen) \cup {QuickBrownFox}
WrapFonts == {NoMethodFont, PropFont}
WrapWidths == {-10, 0, 5, 25, 35, 109}

InitWrap ==
    /\ text \in WrapTexts
    /\ font \in WrapFonts
    /\ max_width \in WrapWidths
    /\ paragraphs = <<>>
    /\ pidx = 0
    /\ words = <<>>
    /\ widx = 0
    /\ word = <<>>
    /\ current_line = <<>>
    /\ chars_per_line = 0
    /\ lines = <<>>
    /\ wpc = "start"
    /\ pre_lines = <<>>
    /\ pre_line = <<>>
    /\ para_start = 0
    /\ ClassifyIdle
    /\ LayoutIdle
    /\ AnswerIdle
    /\ MainIdle
    /\ SizeIdle

\* wrap_text is not running
WrapIdle ==
    /\ text = <<>>
    /\ font = NoMethodFont
    /\ max_width = 0
    /\ paragraphs = <<>>
    /\ pidx = 0
    /\ words = <<>>
    /\ widx = 0
    /\ word = <<>>
    /\ current_line = <<>>
    /\ chars_per_line = 0
    /\ lines = <<>>
    /\ wpc = "idle"
    /\ pre_lines = <<>>
    /\ pre_line = <<>>
    /\ para_start = 0

NextWrap ==
    \/ WrapBegin
    \/ ParagraphBegin
    \/ WordStep
    \/ FallbackCut
    \/ FallbackExit
    \/ ParagraphEnd
    \/ WrapReturn

SpecWrap == InitWrap /\ [][NextWrap]_vars

\* texts that hold tabs as well
TabAlphabet == WrapAlphabet \cup {"\t"}
TabTexts == StringsUpTo(TabAlphabet, MaxLen - 1)

InitWrapTabs ==
    /\ text \in TabTexts
    /\ font \in WrapFonts
    /\ max_width \in WrapWidths
    /\ paragraphs = <<>>
    /\ pidx = 0
    /\ words = <<>>
    /\ widx = 0
    /\ word = <<>>
    /\ current_line = <<>>
    /\ chars_per_line = 0
    /\ lines = <<>>
    /\ wpc = "start"
    /\ pre_lines = <<>>
    /\ pre_line = <<>>
    /\ para_start = 0
    /\ ClassifyIdle
    /\ LayoutIdle
    /\ AnswerIdle
    /\ MainIdle
    /\ SizeIdle

SpecWrapTabs == InitWrapTabs /\ [][NextWrap]_vars

ClassifyAlphabet == {" ", "#", "i", "f", "n", "_", "x", "'", "\""}

\* the examples of the classification contract
ExampleComment == <<"#"," ","i","f"," ","x",":">>
ExampleKeyword == <<"i","f"," ","x"," ",">"," ","0",":">>
ExampleString == <<"p","r","i","n","t","(","'","h","i","'",")">>
ExampleDefault == <<"x"," ","=", " ","1">>
ExampleIffy == <<"i","f","f","y">>
ExampleInX == <<"i","n","_","x">>

\* every keyword alone, indented and followed by a space, a colon, a quote, a
\* letter, a digit or an underscore
KeywordLines ==
    UNION { { k, <<" ", "\t">> \o k \o <<" ", "x">>, k \o <<":">>,
              k \o <<"'">>, k \o <<"x">>, k \o <<"1">>, k \o <<"_">> }
            : k \in Keywords }

ClassifyLines ==
    StringsUpTo(ClassifyAlphabet, MaxLineLen)
        \cup KeywordLines
        \cup {ExampleComment, ExampleKeyword, ExampleString, ExampleDefault,
              ExampleIffy, ExampleInX}

InitClassify ==
    /\ line \in ClassifyLines
    /\ color = "CODE_COLOR_DEFAULT"
    /\ cpc = "start"
    /\ WrapIdle
    /\ LayoutIdle
    /\ AnswerIdle
    /\ MainIdle
    /\ SizeIdle

NextClassify == ClassifyLine

SpecClassify == InitClassify /\ [][NextClassify]_vars

\* n copies of the text, the separator between them
RECURSIVE Repeat(_, _, _)
Repeat(s, sep, n) ==
    IF n <= 1 THEN s ELSE s \o sep \o Repeat(s, sep, n - 1)

ShortQuestion ==
    <<"W","h","a","t"," ","i","s"," ","p","r","i","n","t","e","d","?">>

\* three lines, the line breaks escaped as fetch_question leaves them
ThreeLineCode ==
    <<"x"," ","="," ","'","a","'","\\","n","i","f"," ","x",":","\\","n"," ",
      " "," "," ","p","r","i","n","t","(","x",")"," "," ","#"," ","b">>

\* a code of CodeLines lines
LongCode == Repeat(<<"x">>, <<"\\", "n">>, CodeLines)

\* an option of OptionLines lines
LongOption == Repeat(<<"a">>, <<"\n">>, OptionLines)

LayoutQuestions == {SampleQuestion, ShortQuestion, <<>>}
LayoutCodes == {SampleCode, ThreeLineCode, LongCode}
LayoutOptionTexts == {SampleOptionA, SampleOptionC, LongOption}
LayoutFonts == {TrueTypeFonts, DefaultFonts, TallFonts}

\* records with the four fields, four options each
FullRecords ==
    { [question |-> q, code |-> c, options |-> <<o1, o2, o3, o4>>,
       correct_answer |-> <<"C">>] :
          q \in LayoutQuestions, c \in LayoutCodes,
          o1 \in LayoutOptionTexts, o2 \in LayoutOptionTexts,
          o3 \in LayoutOptionTexts, o4 \in LayoutOptionTexts }

\* the record without the keys of K
Without(d, K) == [k \in (DOMAIN d) \ K |-> d[k]]

\* records in which the question, the code or the options are absent
PartialRecords ==
    { Without(SampleRecord, K) :
          K \in (SUBSET {"question", "code", "options"}) \ {{}} }

\* a code text that ends in a backslash
BackslashCode ==
    <<"x"," ","="," ","1"," ","\\">>

\* an option without a letter marker
UnmarkedOption ==
    <<"N","o","n","e"," ","o","f"," ","t","h","e","s","e">>

\* option lists that are not four marked options: none, one, two, five, and
\* four without markers
OddOptions ==
    { <<>>, <<SampleOptionA>>, <<SampleOptionA, SampleOptionC>>,
      <<SampleOptionA, SampleOptionB, SampleOptionC, SampleOptionD,
        UnmarkedOption>>,
      <<UnmarkedOption, UnmarkedOption, UnmarkedOption, UnmarkedOption>> }

\* records that break the rules fetch_question checks
OddRecords ==
    { [SampleRecord EXCEPT !.options = o] : o \in OddOptions }
        \cup { [SampleRecord EXCEPT !.code = BackslashCode] }

\* the records create_text_image is called with
LayoutRecords == FullRecords \cup PartialRecords \cup OddRecords

InitLayout ==
    /\ question_data \in LayoutRecords
    /\ fonts \in LayoutFonts
    /\ current_y = 0
    /\ question_lines = <<>>
    /\ qidx = 0
    /\ options = <<>>
    /\ option_i = -1
    /\ box_y_start = 0
    /\ box_y_end = 0
    /\ image_path = None
    /\ lpc = "start"
    /\ plan = <<>>
    /\ error = ""
    /\ first_call = <<>>
    /\ WrapIdle
    /\ ClassifyIdle
    /\ AnswerIdle
    /\ MainIdle
    /\ SizeIdle

NextLayout ==
    \/ DrawPrompt
    \/ WrapQuestion
    \/ DrawQuestionLine
    \/ EndQuestion
    \/ DrawCodeBlock
    \/ ReadOptions
    \/ OptionStep
    \/ EndOptions
    \/ AdjustCursor
    \/ SaveImage
    \/ FontLoadFails
    \/ BackendFails

SpecLayout == InitLayout /\ [][NextLayout]_vars

\* create_text_image has been entered and has not returned
LayoutRunning == lpc \notin {"idle", "done", "failed"}

\* create_text_image takes its next step as long as it has one: weak fairness
\* of NextLayout, with LayoutRunning for ENABLED <<NextLayout>>_vars
LayoutFair == []<>(~LayoutRunning) \/ []<><<NextLayout>>_vars

\* create_text_image called once more with the same record and fonts
NextLayoutTwice ==
    \/ NextLayout
    \/ CallAgain

SpecLayoutTwice == InitLayout /\ [][NextLayoutTwice]_vars

\* the answers and the options of the records of SpecAnswer
AnswerLetters ==
    {<<"A">>, <<" ", "a", " ">>, <<"b">>, <<"A", "B">>, <<"C">>, <<>>}
AnswerOptionTexts ==
    {<<"A", ")", " ", "x">>, <<"a", ".", " ", "y">>, <<"A", "x">>,
     <<" ", "A", "B", ":", " ", "z", " ">>, <<"B", "]", " ", "w">>, <<")">>}

\* the sequences of at most n elements of S
RECURSIVE SeqsUpTo(_, _)
SeqsUpTo(S, n) ==
    IF n = 0 THEN {<<>>}
    ELSE LET shorter == SeqsUpTo(S, n - 1)
         IN  shorter \cup {Append(q, e) : q \in shorter, e \in S}

\* the records create_video is called with: each key there or not
AnswerRecords ==
    LET Opts == SeqsUpTo(AnswerOptionTexts, MaxOptions)
    IN  {[correct_answer |-> a, options |-> o] : a \in AnswerLetters, o \in Opts}
          \cup {[options |-> o] : o \in Opts}
          \cup {[correct_answer |-> a] : a \in AnswerLetters}

InitAnswer ==
    /\ video_question_data \in AnswerRecords
    /\ correct_answer_letter = <<>>
    /\ video_options = <<>>
    /\ opt_index = 0
    /\ correct_option_full_text = <<>>
    /\ answer_display_text = <<>>
    /\ vpc = "start"
    /\ WrapIdle
    /\ ClassifyIdle
    /\ LayoutIdle
    /\ MainIdle
    /\ SizeIdle

NextAnswer ==
    \/ ReadAnswer
    \/ ScanOption
    \/ EndScan
    \/ ShowAnswer

SpecAnswer == InitAnswer /\ [][NextAnswer]_vars

\* the parsed object that holds the record, every field as the JSON value
\* of its type
Parsed(r) ==
    [question |-> Str(r.question), code |-> Str(r.code),
     options |-> JsonList([k \in 1..Len(r.options) |-> Str(r.options[k])]),
     correct_answer |-> Str(r.correct_answer)]

\* options with markers in lower case, in quotes, and three, five and one
\* without a marker
LowerOptions ==
    << <<"a",")"," ","1">>, <<"b",")"," ","2">>, <<"c",")","3">>, <<"d",")">> >>
QuotedOptions ==
    << <<"'","A",")"," ","1","'">>, <<" ","B",")"," ","2"," ">>,
       <<"\"","C",")"," ","3","\"">>, <<"'","'","'","D",")"," ","4","'","'","'">> >>
PlainOptions ==
    << <<"A",")"," ","1">>, <<"B",")"," ","2">>, <<"C",")"," ","3">>,
       <<"D",")"," ","4">> >>

\* a question inside a fence, a code text with a line break in it
FencedQuestion ==
    Fence \o WordText \o <<"\n">> \o ShortQuestion \o <<"\n">> \o Fence
TwoLineCode == <<"x"," ","="," ","1","\n","x">>

PlainRecord ==
    [question |-> ShortQuestion, code |-> TwoLineCode, options |-> PlainOptions,
     correct_answer |-> <<"A">>]

\* the objects json.loads gives fetch_question (line 204): well-formed
\* objects, objects that differ from them in case, quoting and spacing, and
\* objects with a field missing, of another type or malformed
ParsedData ==
    << Parsed([question |-> ShortQuestion, code |-> ThreeLineCode,
               options |-> <<SampleOptionA, SampleOptionB, SampleOptionC,
                             SampleOptionD>>,
               correct_answer |-> <<"B">>]),
       Parsed([SampleRecord EXCEPT !.code = BackslashCode]),
       Parsed([SampleRecord EXCEPT
                  !.options = <<SampleOptionA, SampleOptionA, SampleOptionA,
                                SampleOptionA>>,
                  !.correct_answer = <<"D">>]),
       Parsed([PlainRecord EXCEPT !.options = LowerOptions,
                                  !.correct_answer = <<" ", "b", " ">>]),
       Parsed([PlainRecord EXCEPT !.question = FencedQuestion,
                                  !.options = QuotedOptions,
                                  !.correct_answer = <<"'", "c", "'">>]),
       Parsed([PlainRecord EXCEPT !.options = SubSeq(PlainOptions, 1, 3)]),
       Parsed([PlainRecord EXCEPT
                  !.options = Append(PlainOptions, <<"E",")"," ","5">>)]),
       Parsed([PlainRecord EXCEPT !.options[2] = UnmarkedOption]),
       Parsed([PlainRecord EXCEPT !.options[4] = <<"D", ".", " ", "4">>]),
       [Parsed(PlainRecord) EXCEPT !.options.v[3] = [t |-> "int", v |-> 3]],
       [Parsed(PlainRecord) EXCEPT !.options = Str(<<"A",")"," ","1">>)],
       [Parsed(PlainRecord) EXCEPT !.question = [t |-> "int", v |-> 5]],
       [k \in {"question", "options", "correct_answer"} |-> Parsed(PlainRecord)[k]],
       [k \in {"question", "code", "options"} |-> Parsed(PlainRecord)[k]],
       Parsed([PlainRecord EXCEPT !.correct_answer = <<"E">>]),
       Parsed([PlainRecord EXCEPT !.correct_answer = <<"A", "B">>]),
       Parsed([PlainRecord EXCEPT !.correct_answer = <<>>]) >>

\* what fetch_question returns: the validated record of a parsed object, or
\* None (no module, no answer, no JSON, validation failed)
FetchResults ==
    {Validate(ParsedData[i]) : i \in 1..Len(ParsedData)} \cup {NoRecord}

InitMain ==
    /\ mpc = "start"
    /\ DETECTED_FONT_PATH = None
    /\ main_question_data = NoRecord
    /\ main_image_path = None
    /\ absorbed = {}
    /\ WrapIdle
    /\ ClassifyIdle
    /\ LayoutIdle
    /\ AnswerIdle
    /\ SizeIdle

\* the steps of main, with those of create_text_image and create_video
MainStep ==
    \/ FindFont
    \/ \E result \in FetchResults : FetchQuestion(result)
    \/ FetchRaises
    \/ CheckRecord
    \/ \E ok \in BOOLEAN : SaveCache(ok)
    \/ CallCreateTextImage
    \/ ImageReturns
    \/ SkipVideo
    \/ CallCreateVideo
    \/ VideoFails
    \/ VideoReturns
    \/ Finish

NextMain ==
    \/ MainStep
    \/ NextLayout
    \/ NextAnswer

\* main and the functions it has called take their next step as long as they
\* have one
SpecMain ==
    InitMain /\ [][NextMain]_vars
        /\ WF_vars(MainStep) /\ LayoutFair /\ WF_vars(NextAnswer)

\* the texts and the records of SpecRun: the shorter texts, and the records
\* with four equal options, with fields missing and with odd options
RunTexts == StringsUpTo(WrapAlphabet, MaxLen - 2) \cup {QuickBrownFox}
UniformRecords ==
    { [question |-> q, code |-> c, options |-> <<o, o, o, o>>,
       correct_answer |-> <<"C">>] :
          q \in LayoutQuestions, c \in LayoutCodes, o \in LayoutOptionTexts }
RunRecords == UniformRecords \cup PartialRecords \cup OddRecords

\* wrap_text or create_text_image has been entered
InitRun ==
    \/ InitWrap /\ text \in RunTexts
    \/ InitLayout /\ question_data \in RunRecords

NextRun ==
    \/ NextWrap
    \/ NextLayout

\* a function that has been entered takes its next step as long as it has one
SpecRun ==
    InitRun /\ [][NextRun]_vars /\ WF_vars(NextWrap) /\ LayoutFair

\* fonts as get_text_size may meet them: with getbbox, with getsize only,
\* without a method (with and without a size attribute), and with a method
\* that raises (with and without a size attribute)
GetSizeFont == [PropFont EXCEPT !.kind = "getsize"]
SizedNoMethodFont ==
    [kind |-> "none", cw |-> 0, wide |-> 0, sp |-> 0, h |-> 0, tall |-> 0,
     size |-> 30]
RaisingFont ==
    [kind |-> "bbox", cw |-> 10, wide |-> 20, sp |-> 5, h |-> 50, tall |-> 60,
     raises |-> TRUE]
RaisingSizedFont ==
    [kind |-> "bbox", cw |-> 10, wide |-> 20, sp |-> 5, h |-> 50, tall |-> 60,
     raises |-> TRUE, size |-> 25]
RaisingGetSizeFont ==
    [kind |-> "getsize", cw |-> 6, wide |-> 6, sp |-> 6, h |-> 11, tall |-> 11,
     raises |-> TRUE, size |-> 10]
SizeFonts ==
    {PropFont, GetSizeFont, NoMethodFont, SizedNoMethodFont, RaisingFont,
     RaisingSizedFont, RaisingGetSizeFont}
SizeAlphabet == {"a", "b", " "}

InitSize ==
    /\ size_font \in SizeFonts
    /\ size_text \in StringsUpTo(SizeAlphabet, MaxLen - 2)
    /\ size_result = <<0, 0>>
    /\ size_before = <<0, 0>>
    /\ spc = "call"
    /\ WrapIdle
    /\ ClassifyIdle
    /\ LayoutIdle
    /\ AnswerIdle
    /\ MainIdle

NextSize ==
    \/ Measure
    \/ MeasureAgain
    \/ \E c \in SizeAlphabet : MeasureLonger(c)

SpecSize == InitSize /\ [][NextSize]_vars

-----------------------------------------------------------------------------
(* Properties of wrap_text *)

\* the stepwise wrap_text returns what WrapText computes
WrapStepsAgree == wpc = "done" => lines = WrapText(text, font, max_width)

Count(s, c) == Cardinality({i \in 1..Len(s) : s[i] = c})

RECURSIVE Concat(_)
Concat(ss) == IF ss = <<>> THEN <<>> ELSE Head(ss) \o Concat(Tail(ss))

\* the lines joined by single spaces
RECURSIVE JoinSpace(_)
JoinSpace(ss) ==
    IF ss = <<>> THEN <<>>
    ELSE IF Len(ss) = 1 THEN ss[1]
    ELSE ss[1] \o <<" ">> \o JoinSpace(Tail(ss))

\* every run of spaces replaced by one space
RECURSIVE CollapseSpaces(_)
CollapseSpaces(s) ==
    IF Len(s) <= 1 THEN s
    ELSE IF s[1] = " " /\ s[2] = " " THEN CollapseSpaces(Tail(s))
    ELSE <<s[1]>> \o CollapseSpaces(Tail(s))

Width(f, s) == GetTextSize(f, s)[1]

FixedWidth(f) == f.kind = "none" \/ (f.cw = f.wide /\ f.cw = f.sp)

\* the width of every character under a fixed-width font
FixedCharWidth(f) == IF f.kind = "none" THEN fallback_height \div 2 ELSE f.cw

\* the lines the paragraph that has just been wrapped has added
Group == SubSeq(lines, para_start + 1, Len(lines))

\* the paragraph loop has just finished paragraph pidx - 1
ParagraphWrapped == wpc = "paragraph" /\ pidx > 1

\* C1: under a fixed-width font and max_width > 0 every returned line
\* measures at most max_width, except the pieces the character fallback cut
\* out of a token (no space, at most max(1, max_width div char width)
\* characters).
C1_LinesFitMaxWidth ==
    (wpc = "done" /\ FixedWidth(font) /\ max_width > 0) =>
        \A i \in 1..Len(lines) :
            \/ Width(font, lines[i]) <= max_width
            \/ /\ Count(lines[i], " ") = 0
               /\ Len(lines[i]) <= Max(1, max_width \div FixedCharWidth(font))

\* C2: a text with k line breaks has k + 1 paragraphs, each wrapped on its
\* own, and an empty paragraph adds exactly one empty line to the output.
C2_ParagraphPreserving ==
    ParagraphWrapped =>
        /\ Len(paragraphs) = Count(text, "\n") + 1
        /\ Group = WrapText(paragraphs[pidx - 1], font, max_width)
        /\ paragraphs[pidx - 1] = <<>> => Group = << <<>> >>

\* C3: a run of spaces counts as one separating space: the paragraph's lines
\* are those of the paragraph with every run of spaces collapsed, and no line
\* has two adjacent spaces, ends with a space or consists of spaces only.
C3_SpaceRunsCollapse ==
    ParagraphWrapped =>
        /\ Group = WrapText(CollapseSpaces(paragraphs[pidx - 1]), font, max_width)
        /\ \A i \in 1..Len(Group) :
               /\ \A j \in 1..(Len(Group[i]) - 1) :
                      ~(Group[i][j] = " " /\ Group[i][j + 1] = " ")
               /\ Group[i] # <<>> => Group[i][Len(Group[i])] # " "
               /\ Count(Group[i], " ") < Len(Group[i]) \/ Group[i] = <<>>

\* a paragraph of one or more words separated by single spaces, each word no
\* wider than max_width
SingleSpaced(p) ==
    /\ p # <<>>
    /\ p[1] # " "
    /\ p[Len(p)] # " "
    /\ \A j \in 1..(Len(p) - 1) : ~(p[j] = " " /\ p[j + 1] = " ")
    /\ \A w \in {Split(p, " ")[k] : k \in 1..Len(Split(p, " "))} :
           Width(font, w) <= max_width

FirstWord(s) == Split(s, " ")[1]

\* C4: the greedy rule. For a paragraph of single-space-separated words, none
\* wider than max_width, the lines joined by single spaces are the paragraph,
\* every line fits max_width, and every line but the last is maximal: with a
\* space and the next line's first word it would exceed max_width. At 10 px
\* per character and max_width 109, "the quick brown fox jumps" gives
\* "the quick", "brown fox", "jumps".
C4_GreedyRule ==
    /\ (ParagraphWrapped /\ SingleSpaced(paragraphs[pidx - 1])) =>
           /\ JoinSpace(Group) = paragraphs[pidx - 1]
           /\ \A i \in 1..Len(Group) : Width(font, Group[i]) <= max_width
           /\ \A i \in 1..(Len(Group) - 1) :
                  Width(font, Group[i] \o <<" ">> \o FirstWord(Group[i + 1]))
                      > max_width
    /\ (wpc = "done" /\ text = QuickBrownFox /\ font = NoMethodFont
            /\ max_width = 109) =>
           lines = << <<"t","h","e"," ","q","u","i","c","k">>,
                      <<"b","r","o","w","n"," ","f","o","x">>,
                      <<"j","u","m","p","s">> >>

\* a paragraph of several words was wrapped into several lines, one of them
\* holding two words and filling max_width exactly
C4_Witness ==
    /\ ParagraphWrapped
    /\ SingleSpaced(paragraphs[pidx - 1])
    /\ Len(Group) >= 2
    /\ \E i \in 1..Len(Group) :
           Count(Group[i], " ") = 1 /\ Width(font, Group[i]) = max_width

\* the lines before the token's pieces: those before the word, and the line
\* accumulated so far, which is flushed first
BeforeToken ==
    pre_lines \o (IF pre_line # <<>> THEN <<pre_line>> ELSE <<>>)

\* the pieces cut out of the token so far
Segments == SubSeq(lines, Len(BeforeToken) + 1, Len(lines))

\* C5: a word wider than max_width is cut with
\* charsPerLine = max(1, floor(max_width / (word_width / len(word)))): every
\* piece emitted has at most charsPerLine characters, the pieces follow the
\* line accumulated before, in order, and the pieces followed by the
\* remainder kept as the current line are the token.
C5_FallbackCut ==
    wpc = "fallback" =>
        LET word_width == Width(font, word)
            charsPerLine == Max(1, (max_width * Len(word)) \div word_width)
        IN  /\ word_width > max_width
            /\ Len(lines) >= Len(BeforeToken)
            /\ SubSeq(lines, 1, Len(BeforeToken)) = BeforeToken
            /\ \A i \in 1..Len(Segments) :
                   Len(Segments[i]) \in 1..charsPerLine
            /\ Concat(Segments) \o current_line = word

\* a token was cut into two or more pieces of two or more characters after an
\* accumulated line, and the cutting is over
C5_Witness ==
    /\ wpc = "fallback"
    /\ pre_line # <<>>
    /\ chars_per_line >= 2
    /\ Len(Segments) >= 2
    /\ Len(current_line) <= chars_per_line

-----------------------------------------------------------------------------
(* Properties of the colouring *)

\* the longest prefix of word characters
RECURSIVE FirstToken(_)
FirstToken(s) ==
    IF s = <<>> \/ Head(s) \notin WordChars THEN <<>>
    ELSE <<Head(s)>> \o FirstToken(Tail(s))

\* the category the contract gives a line
Category(l) ==
    IF Strip(l) # <<>> /\ Strip(l)[1] = "#" THEN "Comment"
    ELSE IF FirstToken(LStrip(l)) \in Keywords THEN "Keyword"
    ELSE IF Count(l, "'") + Count(l, "\"") > 0 THEN "String"
    ELSE "Default"

ColorOf(category) ==
    CASE category = "Comment" -> "CODE_COLOR_COMMENT"
      [] category = "Keyword" -> "CODE_COLOR_KEYWORD"
      [] category = "String" -> "CODE_COLOR_STRING"
      [] category = "Default" -> "CODE_COLOR_DEFAULT"

\* C6: the colour of a line follows the priority Comment > Keyword > String >
\* Default: Comment if the trimmed line starts with '#'; else Keyword if the
\* first token after leading whitespace is one of the keywords (so "iffy" and
\* "in_x" are not); else String if the line holds a quote; else Default.
\* "# if x:" is Comment, "if x > 0:" Keyword, "print('hi')" String and
\* "x = 1" Default.
C6_ClassifyPriority ==
    cpc = "done" =>
        /\ color = ColorOf(Category(line))
        /\ line = ExampleComment => color = "CODE_COLOR_COMMENT"
        /\ line = ExampleKeyword => color = "CODE_COLOR_KEYWORD"
        /\ line = ExampleString => color = "CODE_COLOR_STRING"
        /\ line = ExampleDefault => color = "CODE_COLOR_DEFAULT"
        /\ line \in {ExampleIffy, ExampleInX} => color # "CODE_COLOR_KEYWORD"

\* an indented comment that holds a keyword and a quote was coloured as a
\* comment
C6_Witness ==
    /\ cpc = "done"
    /\ color = "CODE_COLOR_COMMENT"
    /\ QuoteSearch(line)
    /\ \E i \in 1..(Len(line) - 1) : SubSeq(line, i, i + 1) = <<"i", "f">>


-----------------------------------------------------------------------------
(* Properties of the layout pass of create_text_image *)

\* the option boxes of the plan, in the order they were drawn
Drawn == SelectSeq(plan, LAMBDA e : e.kind = "option")

\* the lowest line the bottom of an option box may reach
Limit == VIDEO_HEIGHT - BOTTOM_MARGIN

\* the bottom of the code box, once it is drawn
CodeBlockEnd == plan[3].bottom

\* the cursor the k-th option is laid out at, read from the plan
OptionTop(k) ==
    IF k = 1 THEN CodeBlockEnd + block_spacing
    ELSE Drawn[k - 1].bottom + option_inter_box_spacing

\* the height of the box of the k-th option
BoxHeight(k) == dynamic_option_box_height(fonts.option_font, options[k])

\* the option loop is over
OptionsDone == lpc \in {"adjust", "save", "done"}

\* C7: the options are examined in their order; a box is drawn only if its
\* bottom, the cursor plus the height of the box, does not exceed VIDEO_HEIGHT -
\* BOTTOM_MARGIN; the first option whose box would exceed the limit is dropped
\* with every later one. So the drawn boxes are the first options of the list,
\* each one whole and above the limit, and the loop stops short only at an
\* option that does not fit
C7_OverflowPolicy ==
    /\ Len(Drawn) <= Len(options)
    /\ \A k \in 1..Len(Drawn) :
          /\ Drawn[k].index = k - 1
          /\ Drawn[k].lines =
                 WrapText(options[k], fonts.option_font, option_wrap_width)
          /\ Drawn[k].top = OptionTop(k)
          /\ Drawn[k].bottom = Drawn[k].top + BoxHeight(k)
          /\ Drawn[k].bottom <= Limit
    /\ (OptionsDone /\ Len(Drawn) < Len(options)) =>
          OptionTop(Len(Drawn) + 1) + BoxHeight(Len(Drawn) + 1) > Limit

\* an option was too high for the room left, and a later option, which would
\* have fitted there, is dropped with it
C7_Witness ==
    /\ lpc = "done"
    /\ Len(Drawn) >= 1
    /\ Len(Drawn) + 1 < Len(options)
    /\ OptionTop(Len(Drawn) + 1) + BoxHeight(Len(Drawn) + 1) > Limit
    /\ \E j \in (Len(Drawn) + 2)..Len(options) :
          OptionTop(Len(Drawn) + 1) + BoxHeight(j) <= Limit

\* the sum of the heights of the boxes of the options
RECURSIVE CumulativeHeight(_)
CumulativeHeight(k) ==
    IF k = 0 THEN 0 ELSE BoxHeight(k) + CumulativeHeight(k - 1)

\* the four boxes are together higher than the room below the code box
FourTooHigh ==
    /\ OptionsDone
    /\ Len(options) = 4
    /\ CumulativeHeight(4) > VIDEO_HEIGHT - BOTTOM_MARGIN - CodeBlockEnd

\* C8: four options whose boxes are together higher than VIDEO_HEIGHT -
\* BOTTOM_MARGIN minus the bottom of the code box give fewer than four boxes,
\* and the boxes left out are the last ones of the list
C8_FourOptionsOverflow ==
    FourTooHigh =>
        /\ Len(Drawn) < 4
        /\ \A k \in 1..Len(Drawn) : Drawn[k].index = k - 1

\* four boxes too high together, the first of them drawn, the last left out
C8_Witness ==
    /\ FourTooHigh
    /\ lpc = "done"
    /\ Len(Drawn) \in 1..3
    /\ Drawn[Len(Drawn)].index = Len(Drawn) - 1

\* the order of the elements
ElementOrder == <<"prompt", "text", "code">>

\* every line of every face is between 1 and 100 px high
LineHeightsInRange ==
    \A n \in DOMAIN fonts : fonts[n].h \in 1..100 /\ fonts[n].tall \in 1..100

\* the scenario: a question of at most two lines, three code lines, four
\* options of one line each, on the 1080 x 1920 canvas
RoundTrip ==
    /\ lpc = "done"
    /\ VIDEO_WIDTH = 1080 /\ VIDEO_HEIGHT = 1920
    /\ Len(question_lines) <= 2
    /\ Len(plan) >= 3 /\ Len(plan[3].lines) = 3
    /\ Len(options) = 4
    /\ \A k \in 1..4 :
          Len(WrapText(options[k], fonts.option_font, option_wrap_width)) = 1
    /\ LineHeightsInRange

\* C9: the elements are the prompt, the question, the code box and the option
\* boxes in the order of the list, the top of each one below the bottom of the
\* one before it, for every input; in the scenario the image holds the prompt,
\* one question block, one code box and four option boxes
C9_OrderNoOverlap ==
    /\ \A k \in 1..Len(plan) :
          plan[k].kind = IF k <= 3 THEN ElementOrder[k] ELSE "option"
    /\ \A k \in 4..Len(plan) : plan[k].index = k - 4
    /\ \A k \in 1..(Len(plan) - 1) : plan[k + 1].top > plan[k].bottom
    /\ (OptionsDone => Len(plan) >= 3)
    /\ (RoundTrip => Len(plan) = 7 /\ image_path = IMAGE_CACHE)

\* the scenario at its highest: two question lines and every line 100 px high
C9_Witness ==
    /\ RoundTrip
    /\ Len(question_lines) = 2
    /\ fonts = TallFonts
    /\ Len(plan) = 7
    /\ plan[7].bottom > plan[4].top

-----------------------------------------------------------------------------
(* Properties of the answer lookup of create_video *)

\* the lookup is over
LookupDone == vpc \in {"show", "done"}

\* the trimmed text of the k-th option begins, case ignored, with the letter
BeginsWithLetter(k) ==
    LET t == Strip(video_options[k])
    IN  /\ Len(t) >= Len(correct_answer_letter)
        /\ \A i \in 1..Len(correct_answer_letter) :
              UpperChar(t[i]) = correct_answer_letter[i]

\* the options whose trimmed text begins with the letter and a separator:
\* whitespace, `)', `.', `:' or `]'
WithSeparator ==
    {k \in 1..Len(video_options) :
        /\ BeginsWithLetter(k)
        /\ Len(Strip(video_options[k])) > Len(correct_answer_letter)
        /\ Strip(video_options[k])[Len(correct_answer_letter) + 1]
               \in {" ", "\t", "\n", ")", ".", ":", "]"}}

\* the options whose trimmed text begins with the letter, whatever follows
WithLetter == {k \in 1..Len(video_options) : BeginsWithLetter(k)}

\* C10 as stated: the text is the text of an option whose trimmed text begins
\* with the letter and a separator, and the placeholder "(<letter>)" when
\* there is no such option
C10_SeparatorOrPlaceholder ==
    LookupDone =>
        IF WithSeparator # {}
        THEN \E k \in WithSeparator :
                 correct_option_full_text
                     \in {video_options[k], Strip(video_options[k])}
        ELSE correct_option_full_text = Placeholder(correct_answer_letter)

\* C10: the text is the trimmed text of the first option that begins, case
\* ignored, with the letter and a separator; without such an option, the
\* trimmed text of the last option that begins, case ignored, with the
\* letter; without that either, the placeholder "(<letter>)". The letter is
\* the trimmed answer in upper case, `?' for a record without an answer
C10_AnswerLookup ==
    /\ LookupDone =>
          /\ correct_answer_letter =
                 Upper(Strip(Get(video_question_data, "correct_answer", <<"?">>)))
          /\ video_options = Get(video_question_data, "options", <<>>)
          /\ correct_option_full_text =
                 IF WithSeparator # {}
                 THEN Strip(video_options[CHOOSE k \in WithSeparator :
                                              \A j \in WithSeparator : k <= j])
                 ELSE IF WithLetter # {}
                 THEN Strip(video_options[CHOOSE k \in WithLetter :
                                              \A j \in WithLetter : k >= j])
                 ELSE Placeholder(correct_answer_letter)
    /\ vpc = "done" =>
          answer_display_text = AnswerPrefix \o correct_option_full_text

\* no option with the letter and a separator, two different options with the
\* letter: the last of them is the answer shown
C10_Witness ==
    /\ vpc = "done"
    /\ correct_answer_letter # <<>>
    /\ WithSeparator = {}
    /\ \E j, k \in WithLetter :
          /\ j < k
          /\ Strip(video_options[j]) # Strip(video_options[k])
          /\ correct_option_full_text = Strip(video_options[k])
    /\ correct_option_full_text # Placeholder(correct_answer_letter)

-----------------------------------------------------------------------------
(* Properties of the failures of create_text_image *)

\* the record does not hold the key
Absent(key) == key \notin DOMAIN question_data

\* the layout is at a step it can take without the backend failing: the
\* guards of the steps of create_text_image
CanStep ==
    \/ lpc \in {"start", "question", "code", "options", "adjust", "save"}
    \/ lpc = "question_lines" /\ qidx \in 1..(Len(question_lines) + 1)
    \/ lpc = "option_loop" /\ option_i + 1 \in 0..Len(options)

\* create_text_image has returned
Returned == lpc \in {"done", "failed"}

\* C11: a record without the question, the code or the options is laid out
\* with "Error: Question missing", "# Error: Code missing" and four times
\* "Error: Options missing" in their place; no step refuses to go on, the
\* absent field never is what makes create_text_image fail, and the image is
\* produced at the end
C11_MissingFieldsTolerated ==
    /\ (Absent("question") /\ Len(plan) >= 2) =>
          question_lines =
              WrapText(QuestionMissing, fonts.title_font, content_width)
    /\ (Absent("code") /\ Len(plan) >= 3) =>
          plan[3].lines =
              <<[text |-> CodeMissing, color |-> "CODE_COLOR_COMMENT"]>>
    /\ (Absent("options") /\ lpc \in {"option_loop", "adjust", "save", "done"}) =>
          options = <<OptionMissing, OptionMissing, OptionMissing, OptionMissing>>
    /\ (lpc = "failed" /\ error = "UnicodeDecodeError") => ~Absent("code")
    /\ (lpc = "failed" /\ error = "UnboundLocalError") => ~Absent("options")
    /\ ~Returned => CanStep
    /\ lpc = "done" => image_path = IMAGE_CACHE

\* the image of a record that holds only the answer: the three placeholders
\* and all four option boxes
C11_Witness ==
    /\ lpc = "done"
    /\ Absent("question") /\ Absent("code") /\ Absent("options")
    /\ image_path = IMAGE_CACHE
    /\ Len(Drawn) = 4
    /\ Len(plan[2].lines) >= 1

\* everything of the image is drawn: the prompt, every line of the question,
\* the code box, and each option up to the end of the list or to the first
\* one that does not fit
LayoutComplete ==
    /\ Len(plan) >= 3
    /\ plan[2].lines = question_lines
    /\ Len(plan[3].lines) >= 1
    /\ \/ Len(Drawn) = Len(options)
       \/ /\ Len(Drawn) < Len(options)
          /\ OptionTop(Len(Drawn) + 1) + BoxHeight(Len(Drawn) + 1) > Limit

\* C12: create_text_image returns the path only from the save that follows
\* the last drawing step; a step that fails makes it return None; and main
\* starts create_video only with the path create_text_image returned in this
\* run
C12_NoVideoWithoutImage ==
    /\ image_path = IMAGE_CACHE =>
          lpc = "done" /\ error = "" /\ LayoutComplete
    /\ lpc = "done" => image_path = IMAGE_CACHE
    /\ lpc = "failed" => image_path = None /\ error # ""
    /\ error # "" => lpc = "failed" /\ image_path = None
    /\ main_image_path = IMAGE_CACHE => lpc = "done" /\ image_path = IMAGE_CACHE
    /\ vpc # "idle" =>
          /\ mpc \in {"in_video", "finish", "finished"}
          /\ main_image_path = IMAGE_CACHE
          /\ lpc = "done"

\* the backend failed after the code box was drawn: None came back and main
\* finished without the video stage
C12_Witness ==
    /\ mpc = "finished"
    /\ lpc = "failed"
    /\ error = "backend"
    /\ Len(plan) >= 3
    /\ main_image_path = None
    /\ vpc = "idle"

\* C13: whatever the record, with any number of options, marked or not, and
\* any code text, create_text_image finishes the layout and returns the image
\* unless the font or drawing backend fails
C13_LayoutAlwaysCompletes ==
    /\ lpc = "failed" => error \in {"font", "backend"}
    /\ ~Returned => CanStep

-----------------------------------------------------------------------------
(* Properties of get_text_size *)

\* the font gives no measure: it has neither method, or its method raises
NoMeasure(f) == f.kind = "none" \/ ("raises" \in DOMAIN f /\ f.raises)

\* the line height of the estimate: the size attribute of a font whose method
\* raised, 20 without the attribute and for a font without a method
EstimateHeight(f) ==
    IF f.kind # "none" /\ "size" \in DOMAIN f THEN f.size ELSE 20

\* C14: get_text_size always returns a pair; for a font without a measuring
\* method or whose measuring call fails the pair is the estimate, the number
\* of characters times half the line height (20, or the size attribute) and
\* the line height; the same call gives the same pair, and the estimated
\* width does not decrease when a character is appended
C14_MeasureNeverFails ==
    spc # "call" =>
        /\ size_result \in Nat \X Nat
        /\ NoMeasure(size_font) =>
              /\ size_result[2] = EstimateHeight(size_font)
              /\ size_result[1] = Len(size_text) * (size_result[2] \div 2)
        /\ spc = "again" => size_result = size_before
        /\ (spc = "longer" /\ NoMeasure(size_font)) =>
              size_result[1] >= size_before[1]

\* a font of size 25 whose getbbox raises: 12 px more for one character more
C14_Witness ==
    /\ spc = "longer"
    /\ size_font = RaisingSizedFont
    /\ Len(size_text) = MaxLen
    /\ size_result = <<12 * Len(size_text), 25>>
    /\ size_before = <<12 * (Len(size_text) - 1), 25>>

-----------------------------------------------------------------------------
(* Properties of the repeated call of create_text_image *)

\* a second call with the same record and fonts has returned, and the backend
\* did not fail in it
SecondReturned ==
    /\ DOMAIN first_call # {}
    /\ lpc \in {"done", "failed"}
    /\ error \in RecordErrors

-----------------------------------------------------------------------------
(* Properties of termination *)

\* wrap_text or create_text_image has returned
Terminated == wpc = "done" \/ lpc \in {"done", "failed"}

\* a pass of the word loop's body: the next word is taken, or the word loop
\* is left for the fallback loop with this word
WordConsumed ==
    (wpc = "word" /\ wpc' \in {"word", "fallback"} /\ word' = words[widx]) =>
        \/ wpc' = "word" /\ widx' = widx + 1
        \/ wpc' = "fallback" /\ widx' = widx

\* a pass of the fallback loop's body leaves a shorter token
TokenShortened ==
    (wpc = "fallback" /\ wpc' = "fallback") =>
        Len(current_line') < Len(current_line)

\* the fallback loop is left to the next word
FallbackLeft ==
    (wpc = "fallback" /\ wpc' # "fallback") =>
        wpc' = "word" /\ widx' = widx + 1

\* C16: wrap_text returns for every text and width, widths of 0 and below
\* and words wider than the width included: a pass of the word loop goes on to
\* the next word, a pass of the fallback loop strictly shortens the token;
\* create_text_image returns as well
C16_Terminates ==
    /\ <>Terminated
    /\ [][WordConsumed /\ TokenShortened /\ FallbackLeft]_vars

\* wrap_text has returned for a width below 0 after cutting the longest word
\* into lines of one character
C16_Witness ==
    /\ wpc = "done"
    /\ max_width < 0
    /\ Len(word) = MaxLen - 2
    /\ Len(lines) = Len(word)
    /\ chars_per_line = 1

-----------------------------------------------------------------------------
(* Properties of main *)

\* C17: whether fetch_question, the write of the cache file, create_text_image
\* or create_video fails or raises, main goes on and reaches its last step,
\* the print of `Process finished'
C17_MainFinishes == <>(mpc = "finished")

\* main has finished after fetch_question, the cache write and create_video
\* have failed
C17_Witness ==
    /\ mpc = "finished"
    /\ absorbed = {"fetch", "cache", "video"}

\* main has finished after create_text_image has returned None
C17_ImageFailed ==
    /\ mpc = "finished"
    /\ "image" \in absorbed
    /\ main_image_path = None

-----------------------------------------------------------------------------
(* Properties of the cursor of create_text_image *)

\* the sum of the measured heights of the lines
RECURSIVE SumHeights(_, _)
SumHeights(f, ls) ==
    IF ls = <<>> THEN 0
    ELSE GetTextSize(f, Head(ls))[2] + SumHeights(f, Tail(ls))

\* the code box has been placed
CodePlaced == Len(plan) >= 3 /\ plan[3].kind = "code"

\* C18: for every number n >= 0 of wrapped lines of the question, the code
\* box starts at the top of the question plus the measured heights of the
\* lines, 15 px between consecutive lines and 40 px below the block
C18_QuestionBlockHeight ==
    CodePlaced =>
        plan[3].top =
            plan[2].top + SumHeights(fonts.title_font, question_lines)
                + line_spacing_title * Max(Len(question_lines) - 1, 0)
                + block_spacing

\* the statement that no assignment lowers the cursor; line 612 does
C19_CursorNeverDecreases == [][current_y' >= current_y]_vars

\* the step of lines 611-612 has lowered the cursor
TakenBack ==
    /\ lpc \in {"save", "done"}
    /\ plan[Len(plan)].kind = "option"
    /\ current_y = plan[Len(plan)].bottom

\* C19: the prompt is drawn at TOP_PROMPT_Y; while the prompt, the question,
\* the code box and the option boxes are placed no assignment lowers the
\* cursor; the one assignment that does is that of line 612, after the option
\* loop: it takes back the spacing below the last option box, and the cursor
\* ends at the bottom of that box
C19_CursorMonotoneWhileDrawing ==
    /\ [](plan # <<>> => plan[1].top = TOP_PROMPT_Y)
    /\ [][/\ lpc # "adjust" => current_y' >= current_y
          /\ lpc = "adjust" =>
                \/ current_y' = current_y
                \/ /\ current_y' = current_y - option_inter_box_spacing
                   /\ current_y' = box_y_end
                   /\ option_i = Len(options) - 1]_vars

\* four options have been drawn and the cursor is at the bottom of the last
C19_Witness ==
    /\ TakenBack
    /\ Len(plan) = 7
    /\ option_i = 3

-----------------------------------------------------------------------------
(* Properties of the characters of wrap_text *)

\* the string without the characters of the set
Remove(s, cs) == SelectSeq(s, LAMBDA c : c \notin cs)

\* the statement with spaces and line breaks only: a tab at the edge of a
\* word is lost to strip() as well
C20_SpacesRemoved ==
    wpc = "done" =>
        Remove(Concat(lines), {" "}) = Remove(text, {" ", "\n"})

\* C20: the returned lines hold the visible characters of the text, each
\* once and in the order of the text, fallback cuts included: the lines
\* joined, without whitespace, are the text without whitespace
C20_VisibleCharactersKept ==
    wpc = "done" =>
        Remove(Concat(lines), Whitespace) = Remove(text, Whitespace)

\* a tab has been dropped and the word after it cut into lines of one
\* character
C20_Witness ==
    /\ wpc = "done"
    /\ text = <<"\t", " ", "a", "b">>
    /\ lines = << <<"a">>, <<"b">> >>

-----------------------------------------------------------------------------
(* Properties of the record of main *)

CapitalLetters == {"A", "B", "C", "D"}
SmallLetters == {"a", "b", "c", "d"}

\* the record holds the four fields, four options that each begin with one
\* of the letters and a closing parenthesis, and an answer from A to D
FourMarked(d, letters) ==
    /\ RequiredKeys \subseteq DOMAIN d
    /\ Len(d.options) = 4
    /\ \A k \in 1..Len(d.options) :
          /\ Len(d.options[k]) >= 2
          /\ d.options[k][1] \in letters
          /\ d.options[k][2] = ")"
    /\ Len(d.correct_answer) = 1
    /\ d.correct_answer[1] \in CapitalLetters

\* main has replaced a missing record
RecordChosen == mpc \notin {"idle", "start", "fetch", "fallback"}

\* the records create_text_image and create_video have been called with are
\* well-formed with the given letters as markers, and the sample question
\* whenever fetch_question raised or returned None
RecordPassed(letters) ==
    /\ lpc # "idle" => FourMarked(question_data, letters)
    /\ vpc # "idle" => FourMarked(video_question_data, letters)
    /\ RecordChosen => FourMarked(main_question_data, letters)
    /\ (RecordChosen /\ "fetch" \in absorbed) =>
          /\ main_question_data = SampleRecord
          /\ lpc # "idle" => question_data = SampleRecord
          /\ vpc # "idle" => video_question_data = SampleRecord

\* the statement with the markers A) to D) in capitals only: line 241 matches
\* under re.IGNORECASE and lets a) to d) pass
C21_CapitalMarkers == RecordPassed(CapitalLetters)

\* C21: whatever fetch_question does, the record main passes on holds the
\* four fields, exactly four options that each begin with a marker A) to D)
\* in either case, and an answer among A, B, C, D; it is the sample question
\* whenever fetching or validation failed
C21_RecordWellFormed == RecordPassed(CapitalLetters \cup SmallLetters)

\* create_video has been called with a validated record whose markers are
\* small letters and whose answer was trimmed and put in upper case
C21_Witness ==
    /\ vpc # "idle"
    /\ video_question_data.options = LowerOptions
    /\ video_question_data.correct_answer = <<"B">>
    /\ "fetch" \notin absorbed

\* create_video has been called with the sample question after fetch_question
\* failed
C21_SampleUsed ==
    /\ vpc # "idle"
    /\ "fetch" \in absorbed
    /\ video_question_data = SampleRecord

-----------------------------------------------------------------------------
(* Properties of the overflow check of create_text_image *)

\* the steps after the code box
PastCode == lpc \in {"options", "option_loop", "adjust", "save", "done"}

\* the lines of the code text as line 499 splits them
CodeLinesOf(d) == Split(DecodeEscapes(Get(d, "code", CodeMissing)), "\n")

\* the option loop is over, and the box of the first option, laid out 40 px
\* below the code box, would have ended below the limit
FirstOptionTooHigh ==
    /\ lpc \in {"adjust", "save", "done", "failed"}
    /\ option_i >= 0
    /\ CodePlaced
    /\ CodeBlockEnd + 40 + BoxHeight(1) > Limit

\* C22: the overflow check is made for the option boxes only. The prompt,
\* every line of the question and the code box with every line of the code
\* are drawn whatever their heights, so the code box may end below
\* VIDEO_HEIGHT - BOTTOM_MARGIN. When the bottom of the code box plus the
\* 40 px of block spacing plus the height of the box of the first option is
\* beyond the limit, no option box is drawn, nothing is raised for it, and
\* create_text_image returns the path of the image
C22_OnlyOptionsChecked ==
    /\ block_spacing = 40
    /\ PastCode =>
          /\ CodePlaced
          /\ plan[1].kind = "prompt" /\ plan[2].kind = "text"
          /\ plan[2].lines = question_lines
          /\ Len(plan[3].lines) = Len(CodeLinesOf(question_data))
          /\ plan[3].bottom =
                 plan[3].top
                     + code_block_content_height(fonts.code_font,
                                                 CodeLinesOf(question_data))
                     + 2 * code_block_padding_y
    /\ FirstOptionTooHigh =>
          /\ Len(Drawn) = 0
          /\ option_i = 0
          /\ lpc = "failed" => error = "backend"
          /\ lpc # "failed" => error = ""
          /\ lpc = "done" => image_path = IMAGE_CACHE

\* the code box ends below the limit, none of the four options is drawn and
\* the path of the image is returned
C22_Witness ==
    /\ lpc = "done"
    /\ FirstOptionTooHigh
    /\ CodeBlockEnd > Limit
    /\ Len(options) = 4
    /\ Len(Drawn) = 0
    /\ Len(plan) = 3
    /\ image_path = IMAGE_CACHE

\* the code box ends above the limit and the first option alone is too high
\* for the room left
C22_FirstOptionAlone ==
    /\ lpc = "done"
    /\ FirstOptionTooHigh
    /\ CodeBlockEnd + 40 <= Limit
    /\ Len(Drawn) = 0
    /\ image_path = IMAGE_CACHE

====
